---- MODULE Spec2Model ----
(***************************************************************************)
(* distributed-cron: master replicas elect a leader through etcd, the      *)
(* leader's cron wheel fires jobs, the dispatcher sends each firing to a   *)
(* worker over gRPC, and the worker drives the execution record through    *)
(* running -> success | failed, gated by a per-job etcd mutex for Forbid   *)
(* jobs.                                                                   *)
(***************************************************************************)
EXTENDS Naturals, FiniteSets, Sequences, Bags, TLC

(***************************************************************************)
(* Bounds of the model.                                                    *)
(***************************************************************************)
MaxExecs == 2
MaxInflight == 1
MaxClock == 2
MaxPending == 2

Masters == {"m1", "m2"}
Workers == {"w1", "w2"}
JobNames == {"j1", "j2"}

(***************************************************************************)
(* Domain values.                                                          *)
(***************************************************************************)
ExecutorTypeHTTP == "http"
ExecutorTypeShell == "shell"
ConcurrencyPolicyAllow == "Allow"
ConcurrencyPolicyForbid == "Forbid"
ExecutionStatusRunning == "running"
ExecutionStatusSuccess == "success"
ExecutionStatusFailed == "failed"

GrpcListenAddr == ":50052"

\* The executors every worker registers.
Executors == {ExecutorTypeHTTP, ExecutorTypeShell}

\* Cron expressions the 6-field parser accepts.
ValidCronExprs == {"*/1 * * * * *", "*/2 * * * * *"}
ParsesAsCron(expr) == expr \in ValidCronExprs

NoJob == [name |-> "none"]
NoCall == [op |-> "none"]
NoHolder == 0
NoErr == <<>>
ErrJobNotFound == <<"job not found">>
ZeroTime == 0

NoRetryPolicy == [max_retries |-> "nil"]
NoMsg == [set |-> "nil"]
ValidationErr == [err |-> "validation failed"]

\* time.ParseDuration and Duration.String on the durations used here: a
\* string that does not parse yields 0 and an error.
ParsesAsDuration(str) == str \in {"1s", "0s"}
ParseDuration(str) ==
    CASE str = "1s" -> 1000000000
      [] OTHER -> 0
DurationString(d) ==
    CASE d = 1000000000 -> "1s"
      [] d = 0 -> "0s"

\* Request bodies of POST /jobs that pass the handler's validation: j1 is a
\* Forbid shell job, sent with either of two schedules; j2 is an http job sent
\* without method and concurrency policy, and with a command it has no use for.
SaveJobRequests ==
    { [name |-> "j1", cron_expr |-> "*/1 * * * * *", executor_type |-> ExecutorTypeShell,
       executor |-> [url |-> "", method |-> "", command |-> "echo"],
       concurrency_policy |-> ConcurrencyPolicyForbid, retry_policy |-> NoRetryPolicy],
      [name |-> "j1", cron_expr |-> "*/2 * * * * *", executor_type |-> ExecutorTypeShell,
       executor |-> [url |-> "", method |-> "", command |-> "echo"],
       concurrency_policy |-> ConcurrencyPolicyForbid, retry_policy |-> NoRetryPolicy],
      [name |-> "j2", cron_expr |-> "*/1 * * * * *", executor_type |-> ExecutorTypeHTTP,
       executor |-> [url |-> "http://svc/run", method |-> "", command |-> "echo"],
       concurrency_policy |-> "", retry_policy |-> NoRetryPolicy] }

\* SaveJobRequest.ToDomainJob: the policy defaults to Allow, the executor keeps
\* only the fields of its type (method defaults to GET), the backoff is
\* parsed; id and both times are left zero.
ToDomainJob(r) ==
    [id |-> "", name |-> r.name, cron_expr |-> r.cron_expr,
     executor_type |-> r.executor_type,
     executor |->
        CASE r.executor_type = ExecutorTypeHTTP ->
                [url |-> r.executor.url,
                 method |-> IF r.executor.method = "" THEN "GET" ELSE r.executor.method,
                 command |-> ""]
          [] r.executor_type = ExecutorTypeShell ->
                [url |-> "", method |-> "", command |-> r.executor.command]
          [] OTHER -> [url |-> "", method |-> "", command |-> ""],
     concurrency_policy |-> IF r.concurrency_policy = "" THEN ConcurrencyPolicyAllow
                            ELSE r.concurrency_policy,
     retry_policy |-> IF r.retry_policy = NoRetryPolicy THEN NoRetryPolicy
                      ELSE [max_retries |-> r.retry_policy.max_retries,
                            backoff |-> ParseDuration(r.retry_policy.backoff)],
     created_at |-> ZeroTime, updated_at |-> ZeroTime]

\* Job.Validate: the job with its defaults filled in, or an error.
Validate(job) ==
    IF \/ job.name = "" \/ job.cron_expr = ""
       \/ job.executor_type = ExecutorTypeHTTP /\ job.executor.url = ""
       \/ job.executor_type = ExecutorTypeShell /\ job.executor.command = ""
       \/ job.executor_type \notin {ExecutorTypeHTTP, ExecutorTypeShell}
    THEN ValidationErr
    ELSE [job EXCEPT
            !.executor.method = IF job.executor_type = ExecutorTypeHTTP /\ @ = ""
                                THEN "GET" ELSE @,
            !.concurrency_policy = IF @ = "" THEN ConcurrencyPolicyAllow ELSE @]

\* The jobs the handler passes to JobService.Save.
JobInputs == {ToDomainJob(r) : r \in SaveJobRequests}

\* The ids uuid.New() yields.
JobIds == {"u1", "u2"}

\* JobService.Save between Validate and repo.Save: a job without id gets a
\* fresh one and its creation time; the update time is always set.
Stamp(job, id, t) ==
    [job EXCEPT !.id = IF job.id = "" THEN id ELSE @,
                !.created_at = IF job.id = "" THEN t ELSE @,
                !.updated_at = t]

\* A JobExecutor encoding that leaves the method out.
MarshalExecutorNoMethod(e) ==
    [k \in {f \in {"url", "command"} : e[f] # ""} |-> e[k]]

\* json.Marshal of a JobExecutor: every field is omitempty.
MarshalExecutor(e) == [k \in {f \in {"url", "method", "command"} : e[f] # ""} |-> e[k]]

\* json.Marshal of a Job: a document with one member per field, without
\* concurrency_policy when it is empty and without retry_policy when it is nil.
Marshal(job) ==
    LET keys == {"id", "name", "cron_expr", "executor_type", "executor", "created_at",
                 "updated_at"}
                \cup (IF job.concurrency_policy # "" THEN {"concurrency_policy"} ELSE {})
                \cup (IF job.retry_policy # NoRetryPolicy THEN {"retry_policy"} ELSE {})
    IN [k \in keys |-> IF k = "executor" THEN MarshalExecutor(job.executor) ELSE job[k]]

\* A member of a document, or the zero value of the field when it is absent.
Member(doc, k, zero) == IF k \in DOMAIN doc THEN doc[k] ELSE zero

\* json.Unmarshal of a stored document into a zero Job.
Unmarshal(doc) ==
    LET e == Member(doc, "executor", <<>>)
    IN [id |-> Member(doc, "id", ""), name |-> Member(doc, "name", ""),
        cron_expr |-> Member(doc, "cron_expr", ""),
        executor_type |-> Member(doc, "executor_type", ""),
        executor |-> [url |-> Member(e, "url", ""), method |-> Member(e, "method", ""),
                      command |-> Member(e, "command", "")],
        concurrency_policy |-> Member(doc, "concurrency_policy", ""),
        retry_policy |-> Member(doc, "retry_policy", NoRetryPolicy),
        created_at |-> Member(doc, "created_at", ZeroTime),
        updated_at |-> Member(doc, "updated_at", ZeroTime)]

\* An expression the 6-field parser rejects (5 fields).
BadCronExpr == "* * * * *"

\* The jobs callers of the Schedular interface pass: the API's definitions,
\* and each of them with an expression that does not parse.
EngineInputs == JobInputs \cup {[j EXCEPT !.cron_expr = BadCronExpr] : j \in JobInputs}

\* etcd returns the keys of a prefix in ascending key order.
JobOrder == <<"j1", "j2">>

VARIABLES
    \* ---- etcd ----
    jobStore,       \* /cron/jobs/<name>          : name -> JSON document or NoJob
    leaderKeys,     \* /cron/leader/<lease>       : masters whose election key exists
    pred,           \* per master: election keys created before its own, still present
    regKeys,        \* /cron/workers/<id>         : workers whose registration key exists
    deregistered,   \* worker ids whose registration key was deleted
    history,        \* /cron/history/<job>/<id>   : key -> execution record
    lockHolder,     \* /cron/locks/<job>          : job name -> execution holding it
    \* ---- master processes ----
    alive,          \* the master process is running
    cancelled,      \* its root context is cancelled
    pc,             \* position of SchedularService.Start
    session,        \* etcdLeaderElectionManager.session: "none" | "live" | "dead"
    isLeader,       \* etcdLeaderElectionManager.isLeader
    cronRunning,    \* cron.Cron is started and not stopped
    entries,        \* the wheel's entries: name -> job or NoJob
    jobs,           \* cronScheduler.jobs: the names that map to an entry id
    unmapped,       \* entries of cron.Cron no name maps to: name -> their jobs
    engineLog,      \* the last two direct Schedular calls and what they returned
    pending,        \* AddJob calls on the engine that have begun and not returned
    discPc,         \* position of WorkerDiscovery.WatchWorkers
    dWorkers,       \* WorkerDiscovery.workers: worker -> address
    watchQ,         \* events of the registry watch, delivered and not yet handled
    clients,        \* Dispatcher.clients: addresses with a cached gRPC client
    lastDispatch,   \* what the last DispatchTask of the master returned
    \* ---- network ----
    rpcs,           \* ExecuteTask calls in flight (a bag)
    \* ---- worker processes ----
    execs,          \* runJob goroutines, by execution id
    now,            \* the wall clock
    jobExecTotal,   \* metrics.JobExecutionTotal: <<job, status>> -> count
    wAlive,         \* the worker process is running
    lastReply       \* the TaskResponse of the last ExecuteTask call

storeVars == <<jobStore, leaderKeys, pred, regKeys, deregistered, history, lockHolder>>
electionVars == <<leaderKeys, pred, session>>
masterVars == <<alive, cancelled, pc, isLeader, cronRunning, entries, jobs, unmapped, engineLog, pending,
                discPc, dWorkers, watchQ, clients, lastDispatch>>
workerVars == <<execs, now, jobExecTotal, wAlive, lastReply, history, lockHolder>>
vars == <<jobStore, leaderKeys, pred, regKeys, deregistered, history, lockHolder, alive,
          cancelled, pc, session, isLeader, cronRunning, entries, jobs, unmapped, engineLog,
          pending, discPc, dWorkers, watchQ,
          clients, lastDispatch, rpcs, execs, now, jobExecTotal, wAlive, lastReply>>

(***************************************************************************)
(* Schedule engine (cronScheduler).                                        *)
(***************************************************************************)

\* The wheel of master m: the entries of its cron instance that s.jobs maps a
\* name to, the names s.jobs maps, and the entries no name maps to.
Wheel(m) == [entries |-> entries[m], jobs |-> jobs[m], unmapped |-> unmapped[m]]

\* AddJob without the removal of the entry the name maps to: the old entry
\* stays in cron.Cron, and the map moves on to the new one.
AddJobKeepsOld(wheel, job) ==
    IF ParsesAsCron(job.cron_expr)
    THEN [entries |-> [wheel.entries EXCEPT ![job.name] = job],
          jobs |-> wheel.jobs \cup {job.name},
          unmapped |-> IF wheel.entries[job.name] # NoJob
                       THEN [wheel.unmapped EXCEPT
                               ![job.name] = Append(@, wheel.entries[job.name])]
                       ELSE wheel.unmapped,
          err |-> FALSE]
    ELSE [entries |-> wheel.entries, jobs |-> wheel.jobs, unmapped |-> wheel.unmapped,
          err |-> TRUE]

\* cronScheduler.AddJob on one master's wheel: the entry the
\* name maps to is removed first; the new entry is installed and mapped only
\* when the expression parses.
AddJob(wheel, job) ==
    LET removed == IF job.name \in wheel.jobs
                   THEN [wheel.entries EXCEPT ![job.name] = NoJob]
                   ELSE wheel.entries
    IN IF ParsesAsCron(job.cron_expr)
       THEN [entries |-> [removed EXCEPT ![job.name] = job],
             jobs |-> wheel.jobs \cup {job.name},
             unmapped |-> wheel.unmapped,
             err |-> FALSE]
       ELSE [entries |-> removed, jobs |-> wheel.jobs, unmapped |-> wheel.unmapped,
             err |-> TRUE]

\* RemoveJob that clears the whole wheel.
RemoveJobClearsAll(wheel, name) ==
    IF name \in wheel.jobs
    THEN [entries |-> [n \in JobNames |-> NoJob], jobs |-> {},
          unmapped |-> wheel.unmapped, err |-> FALSE]
    ELSE [entries |-> wheel.entries, jobs |-> wheel.jobs, unmapped |-> wheel.unmapped,
          err |-> FALSE]

\* cronScheduler.RemoveJob: the mapped entry is removed and the name unmapped;
\* an unmapped name is left alone. It always returns nil.
RemoveJob(wheel, name) ==
    IF name \in wheel.jobs
    THEN [entries |-> [wheel.entries EXCEPT ![name] = NoJob],
          jobs |-> wheel.jobs \ {name},
          unmapped |-> wheel.unmapped,
          err |-> FALSE]
    ELSE [entries |-> wheel.entries, jobs |-> wheel.jobs, unmapped |-> wheel.unmapped,
          err |-> FALSE]

\* The loop of runSchedular over the listed jobs: it returns at the first
\* AddJob that fails, before the wheel is started.
RECURSIVE LoadJobs(_, _, _)
LoadJobs(wheel, listed, i) ==
    IF i > Len(JobOrder)
    THEN [entries |-> wheel.entries, jobs |-> wheel.jobs, unmapped |-> wheel.unmapped,
          err |-> FALSE]
    ELSE IF listed[JobOrder[i]] = NoJob THEN LoadJobs(wheel, listed, i + 1)
    ELSE LET r == AddJob(wheel, listed[JobOrder[i]])
         IN IF r.err THEN r
            ELSE LoadJobs([entries |-> r.entries, jobs |-> r.jobs,
                           unmapped |-> r.unmapped], listed, i + 1)

\* cronScheduler.Stop: the body is empty.
SchedularStop(running) == running

(***************************************************************************)
(* Election (etcd concurrency.Election over a session lease).              *)
(***************************************************************************)

\* The election key of master m disappears: every waiter stops waiting on it.
DropKey(m) ==
    /\ leaderKeys' = leaderKeys \ {m}
    /\ pred' = [x \in Masters |-> pred[x] \ {m}]

(***************************************************************************)
(* Initial state: the processes are constructed, the workers are           *)
(* registered, nothing is stored.                                          *)
(***************************************************************************)
InitStore ==
    /\ jobStore = [n \in JobNames |-> NoJob]
    /\ leaderKeys = {}
    /\ pred = [m \in Masters |-> {}]
    /\ regKeys = Workers
    /\ deregistered = {}
    /\ history = [k \in {} |-> NoJob]
    /\ lockHolder = [n \in JobNames |-> NoHolder]

InitMasters ==
    /\ alive = [m \in Masters |-> TRUE]
    /\ cancelled = [m \in Masters |-> FALSE]
    /\ pc = [m \in Masters |-> "loop"]
    /\ session = [m \in Masters |-> "none"]
    /\ isLeader = [m \in Masters |-> FALSE]
    /\ cronRunning = [m \in Masters |-> FALSE]
    /\ entries = [m \in Masters |-> [n \in JobNames |-> NoJob]]
    /\ jobs = [m \in Masters |-> {}]
    /\ unmapped = [m \in Masters |-> [n \in JobNames |-> <<>>]]
    /\ engineLog = [m \in Masters |-> <<NoCall, NoCall>>]
    /\ pending = [m \in Masters |-> <<>>]
    /\ discPc = [m \in Masters |-> "init"]
    /\ dWorkers = [m \in Masters |-> [w \in {} |-> GrpcListenAddr]]
    /\ watchQ = [m \in Masters |-> <<>>]
    /\ clients = [m \in Masters |-> {}]
    /\ lastDispatch = [m \in Masters |-> NoErr]

\* No ExecuteTask call has been answered yet.
NoReply == [execution_id |-> <<>>, error_message |-> <<>>]

InitWorkers ==
    /\ rpcs = EmptyBag
    /\ execs = <<>>
    /\ now = 1
    /\ jobExecTotal = [k \in JobNames \X {ExecutionStatusSuccess, ExecutionStatusFailed} |-> 0]
    /\ wAlive = [w \in Workers |-> TRUE]
    /\ lastReply = NoReply

Init == InitStore /\ InitMasters /\ InitWorkers

\* The job an earlier API call saved under name n.
SavedJob(n) ==
    Stamp(CHOOSE j \in JobInputs : j.name = n /\ j.cron_expr = "*/1 * * * * *", "u1", 1)

\* Job documents persisted by earlier API calls: both jobs, or j1 alone.
StoredJobs(names) ==
    [n \in JobNames |-> IF n \in names THEN Marshal(SavedJob(n)) ELSE NoJob]

\* etcdJobRepository.List: every document under /cron/jobs/, decoded.
ListJobs(store) ==
    [n \in JobNames |-> IF store[n] = NoJob THEN NoJob ELSE Unmarshal(store[n])]

\* etcdJobRepository.Get: the decoded document of the key, or ErrJobNotFound.
GetJob(store, name) ==
    IF store[name] = NoJob THEN [job |-> NoJob, err |-> ErrJobNotFound]
    ELSE [job |-> Unmarshal(store[name]), err |-> NoErr]

InitLeader ==
    /\ jobStore \in {StoredJobs(JobNames), StoredJobs({"j1"})}
    /\ leaderKeys = {}
    /\ pred = [m \in Masters |-> {}]
    /\ regKeys = Workers
    /\ deregistered = {}
    /\ history = [k \in {} |-> NoJob]
    /\ lockHolder = [n \in JobNames |-> NoHolder]
    /\ InitMasters /\ InitWorkers

(***************************************************************************)
(* Master: worker discovery.                                               *)
(***************************************************************************)

\* WorkerDiscovery.loadInitialWorkers, the first step of WatchWorkers: a
\* prefix Get whose keys are put into the map. When the Get fails the error
\* is logged and WatchWorkers goes on with the map as it is.
LoadInitialWorkers(m, listOk) ==
    /\ alive[m] /\ discPc[m] = "init"
    /\ dWorkers' = [dWorkers EXCEPT ![m] =
                      IF listOk THEN [w \in regKeys |-> GrpcListenAddr] ELSE @]
    /\ discPc' = [discPc EXCEPT ![m] = "listed"]
    /\ UNCHANGED <<storeVars, session, alive, cancelled, pc, isLeader, cronRunning,
                   entries, jobs, unmapped, engineLog, watchQ, clients, lastDispatch, rpcs, execs, now, jobExecTotal, wAlive, pending, lastReply>>

\* WatchWorkers opens the watch on the prefix, without a start revision: it
\* delivers the events committed from now on.
OpenWatch(m) ==
    /\ alive[m] /\ discPc[m] = "listed"
    /\ discPc' = [discPc EXCEPT ![m] = "watching"]
    /\ UNCHANGED <<storeVars, session, alive, cancelled, pc, isLeader, cronRunning,
                   entries, jobs, unmapped, engineLog, dWorkers, watchQ, clients, lastDispatch, rpcs, execs, now, jobExecTotal, wAlive, pending, lastReply>>

\* The loop of WatchWorkers handles the next event: a put sets the worker's
\* address, a delete removes the worker.
HandleEvent(m) ==
    /\ alive[m] /\ discPc[m] = "watching" /\ watchQ[m] # <<>>
    /\ LET ev == Head(watchQ[m])
       IN dWorkers' = [dWorkers EXCEPT ![m] =
                         IF ev.type = "put"
                         THEN [w \in DOMAIN @ \cup {ev.key} |-> GrpcListenAddr]
                         ELSE [w \in DOMAIN @ \ {ev.key} |-> GrpcListenAddr]]
    /\ watchQ' = [watchQ EXCEPT ![m] = Tail(@)]
    /\ UNCHANGED <<storeVars, session, alive, cancelled, pc, isLeader, cronRunning,
                   entries, jobs, unmapped, engineLog, discPc, clients, lastDispatch, rpcs, execs, now, jobExecTotal, wAlive, pending, lastReply>>

\* The watch channel closes when the root context is cancelled: the loop of
\* WatchWorkers ends, the map stays as it is.
WatchClosed(m) ==
    /\ alive[m] /\ cancelled[m] /\ discPc[m] \in {"listed", "watching"}
    /\ discPc' = [discPc EXCEPT ![m] = "exited"]
    /\ watchQ' = [watchQ EXCEPT ![m] = <<>>]
    /\ UNCHANGED <<storeVars, session, alive, cancelled, pc, isLeader, cronRunning,
                   entries, jobs, unmapped, engineLog, dWorkers, clients, lastDispatch, rpcs, execs, now, jobExecTotal, wAlive, pending, lastReply>>

\* The watch channel closes while the root context is live: the server
\* cancels the watch (its revision was compacted, or the stream met an error
\* the client does not recover from). The loop of WatchWorkers ends and
\* WatchWorkers returns; the map stays as it is.
WatchCanceled(m) ==
    /\ alive[m] /\ ~cancelled[m] /\ discPc[m] = "watching"
    /\ discPc' = [discPc EXCEPT ![m] = "exited"]
    /\ watchQ' = [watchQ EXCEPT ![m] = <<>>]
    /\ UNCHANGED <<storeVars, session, alive, cancelled, pc, isLeader, cronRunning,
                   entries, jobs, unmapped, engineLog, dWorkers, clients, lastDispatch, rpcs, execs, now, jobExecTotal, wAlive, pending, lastReply>>

\* etcd delivers a committed event of the prefix to every open watch.
Deliver(ev) ==
    watchQ' = [m \in Masters |->
                 IF discPc[m] = "watching" THEN Append(watchQ[m], ev) ELSE watchQ[m]]

\* Registry.Register: a worker process starts under a fresh id and puts its
\* address under a lease.
Register(w) ==
    /\ w \notin regKeys /\ w \notin deregistered
    /\ regKeys' = regKeys \cup {w}
    /\ Deliver([type |-> "put", key |-> w])
    /\ UNCHANGED <<jobStore, leaderKeys, pred, deregistered, history, lockHolder, session,
                   alive, cancelled, pc, isLeader, cronRunning, entries, jobs, unmapped, engineLog, discPc,
                   dWorkers, clients, lastDispatch, rpcs, execs, now, jobExecTotal, wAlive, pending, lastReply>>

\* Registry.Deregister revokes the lease, or the lease of a dead worker
\* expires: etcd deletes the registration key.
Deregister(w) ==
    /\ w \in regKeys
    /\ regKeys' = regKeys \ {w}
    /\ deregistered' = deregistered \cup {w}
    /\ Deliver([type |-> "delete", key |-> w])
    /\ UNCHANGED <<jobStore, leaderKeys, pred, history, lockHolder, session,
                   alive, cancelled, pc, isLeader, cronRunning, entries, jobs, unmapped, engineLog, discPc,
                   dWorkers, clients, lastDispatch, rpcs, execs, now, jobExecTotal, wAlive, pending, lastReply>>

\* WorkerDiscovery.GetWorkers: the addresses, one per registered worker.
GetWorkersOrDefault(m) ==
    IF DOMAIN dWorkers[m] = {} THEN {GrpcListenAddr}
    ELSE {dWorkers[m][w] : w \in DOMAIN dWorkers[m]}
GetWorkers(m) == {dWorkers[m][w] : w \in DOMAIN dWorkers[m]}

(***************************************************************************)
(* Master: the supervisor loop SchedularService.Start.                     *)
(***************************************************************************)

\* Top of the loop: the select takes the ctx.Done case when the root context
\* is done. Context live: Campaign creates a session, puts the election key
\* and waits for the keys created before it to disappear.
LoopIgnoresDone(m) == FALSE
LoopSelectsDone(m) == cancelled[m]
StartCampaign(m) ==
    /\ alive[m] /\ pc[m] = "loop" /\ ~LoopSelectsDone(m)
    /\ session' = [session EXCEPT ![m] = "live"]
    /\ leaderKeys' = leaderKeys \cup {m}
    /\ pred' = [pred EXCEPT ![m] = leaderKeys \ {m}]
    /\ pc' = [pc EXCEPT ![m] = "campaigning"]
    /\ UNCHANGED <<jobStore, regKeys, deregistered, history, lockHolder, alive, cancelled, isLeader,
                   cronRunning, entries, jobs, unmapped, engineLog, discPc, dWorkers, watchQ, clients, lastDispatch, rpcs,
                   execs, now, jobExecTotal, wAlive, pending, lastReply>>

\* election.Campaign returns: no earlier key is left. isLeader is set.
CampaignWon(m) ==
    /\ alive[m] /\ pc[m] = "campaigning" /\ ~cancelled[m]
    /\ pred[m] = {}
    /\ isLeader' = [isLeader EXCEPT ![m] = TRUE]
    /\ pc' = [pc EXCEPT ![m] = "won"]
    /\ UNCHANGED <<storeVars, session, alive, cancelled, cronRunning, entries, jobs, unmapped, engineLog,
                   discPc, dWorkers, watchQ, clients, lastDispatch, rpcs, execs, now, jobExecTotal, wAlive, pending, lastReply>>

\* election.Campaign returns the context's error after resigning its key; the
\* loop logs it and continues.
CampaignCancelled(m) ==
    /\ alive[m] /\ pc[m] = "campaigning" /\ cancelled[m]
    /\ DropKey(m)
    /\ pc' = [pc EXCEPT ![m] = "loop"]
    /\ UNCHANGED <<jobStore, regKeys, deregistered, history, lockHolder, session, alive, cancelled,
                   isLeader, cronRunning, entries, jobs, unmapped, engineLog, discPc, dWorkers, watchQ, clients, lastDispatch,
                   rpcs, execs, now, jobExecTotal, wAlive, pending, lastReply>>

\* runSchedular: list the jobs, add each to the wheel, start the wheel. A
\* failed List (store error, or the context is cancelled) returns before
\* anything is added or started.
RunSchedular(m) ==
    /\ alive[m] /\ pc[m] = "won"
    /\ \E listOk \in (IF cancelled[m] THEN {FALSE} ELSE BOOLEAN) :
         LET r == LoadJobs(Wheel(m), ListJobs(jobStore), 1)
         IN IF listOk
            THEN /\ entries' = [entries EXCEPT ![m] = r.entries]
                 /\ jobs' = [jobs EXCEPT ![m] = r.jobs]
                 /\ unmapped' = [unmapped EXCEPT ![m] = r.unmapped]
                 /\ cronRunning' = [cronRunning EXCEPT ![m] = IF r.err THEN @ ELSE TRUE]
            ELSE UNCHANGED <<entries, jobs, unmapped, cronRunning>>
    /\ pc' = [pc EXCEPT ![m] = "leading"]
    /\ UNCHANGED <<storeVars, session, alive, cancelled, isLeader, engineLog, discPc, dWorkers, watchQ,
                   clients, lastDispatch, rpcs, execs, now, jobExecTotal, wAlive, pending, lastReply>>

\* The select after runSchedular takes the leadership-lost case: the session
\* is closed. Stop is called and the loop continues.
LeadershipLost(m) ==
    /\ alive[m] /\ pc[m] = "leading" /\ session[m] = "dead"
    /\ cronRunning' = [cronRunning EXCEPT ![m] = SchedularStop(@)]
    /\ pc' = [pc EXCEPT ![m] = "loop"]
    /\ UNCHANGED <<storeVars, session, alive, cancelled, isLeader, entries, jobs, unmapped, engineLog,
                   discPc, dWorkers, watchQ, clients, lastDispatch, rpcs, execs, now, jobExecTotal, wAlive, pending, lastReply>>

\* Either select takes the ctx.Done case: Stop is called and Start returns.
SupervisorExit(m) ==
    /\ alive[m] /\ pc[m] \in {"loop", "leading"} /\ cancelled[m]
    /\ cronRunning' = [cronRunning EXCEPT ![m] = SchedularStop(@)]
    /\ pc' = [pc EXCEPT ![m] = "done"]
    /\ UNCHANGED <<storeVars, session, alive, cancelled, isLeader, entries, jobs, unmapped, engineLog,
                   discPc, dWorkers, watchQ, clients, lastDispatch, rpcs, execs, now, jobExecTotal, wAlive, pending, lastReply>>

\* cronScheduler.Start, in the goroutine runSchedular spawned: once the
\* context is done it stops the wheel.
EngineStop(m) ==
    /\ alive[m] /\ cancelled[m] /\ cronRunning[m]
    /\ cronRunning' = [cronRunning EXCEPT ![m] = FALSE]
    /\ UNCHANGED <<storeVars, session, alive, cancelled, pc, isLeader, entries, jobs, unmapped, engineLog,
                   discPc, dWorkers, watchQ, clients, lastDispatch, rpcs, execs, now, jobExecTotal, wAlive, pending, lastReply>>

\* SIGINT / SIGTERM: setupGracefulShutdown cancels the root context.
Cancel(m) ==
    /\ alive[m] /\ ~cancelled[m]
    /\ cancelled' = [cancelled EXCEPT ![m] = TRUE]
    /\ UNCHANGED <<storeVars, session, alive, pc, isLeader, cronRunning, entries, jobs, unmapped, engineLog,
                   discPc, dWorkers, watchQ, clients, lastDispatch, rpcs, execs, now, jobExecTotal, wAlive, pending, lastReply>>

\* The process ends: it is killed, or main returns after the root context is
\* done. Its memory is gone and its session is no longer kept alive.
Crash(m) ==
    /\ alive[m]
    /\ alive' = [alive EXCEPT ![m] = FALSE]
    /\ cancelled' = [cancelled EXCEPT ![m] = FALSE]
    /\ pc' = [pc EXCEPT ![m] = "exited"]
    /\ isLeader' = [isLeader EXCEPT ![m] = FALSE]
    /\ cronRunning' = [cronRunning EXCEPT ![m] = FALSE]
    /\ entries' = [entries EXCEPT ![m] = [n \in JobNames |-> NoJob]]
    /\ jobs' = [jobs EXCEPT ![m] = {}]
    /\ unmapped' = [unmapped EXCEPT ![m] = [n \in JobNames |-> <<>>]]
    /\ engineLog' = [engineLog EXCEPT ![m] = <<NoCall, NoCall>>]
    /\ pending' = [pending EXCEPT ![m] = <<>>]
    /\ discPc' = [discPc EXCEPT ![m] = "exited"]
    /\ dWorkers' = [dWorkers EXCEPT ![m] = [w \in {} |-> GrpcListenAddr]]
    /\ watchQ' = [watchQ EXCEPT ![m] = <<>>]
    /\ clients' = [clients EXCEPT ![m] = {}]
    /\ lastDispatch' = [lastDispatch EXCEPT ![m] = NoErr]
    /\ UNCHANGED <<storeVars, session, rpcs, execs, now, jobExecTotal, wAlive, lastReply>>

\* The lease of a session runs out (the process is dead, partitioned or
\* paused): etcd deletes the election key, the session's Done channel closes.
SessionExpire(m) ==
    /\ session[m] = "live"
    /\ session' = [session EXCEPT ![m] = "dead"]
    /\ DropKey(m)
    /\ UNCHANGED <<jobStore, regKeys, deregistered, history, lockHolder, alive, cancelled, pc,
                   isLeader, cronRunning, entries, jobs, unmapped, engineLog, discPc, dWorkers, watchQ, clients, lastDispatch,
                   rpcs, execs, now, jobExecTotal, wAlive, pending, lastReply>>

(***************************************************************************)
(* Direct calls on the Schedular interface of a master's engine.           *)
(***************************************************************************)

Logged(m, call) == [engineLog EXCEPT ![m] = <<@[2], call>>]

\* A caller invokes AddJob(job) on the engine of master m.
CallAddJob(m, job) ==
    /\ alive[m]
    /\ LET r == AddJob(Wheel(m), job)
       IN /\ entries' = [entries EXCEPT ![m] = r.entries]
          /\ jobs' = [jobs EXCEPT ![m] = r.jobs]
          /\ unmapped' = [unmapped EXCEPT ![m] = r.unmapped]
          /\ engineLog' = Logged(m, [op |-> "AddJob", name |-> job.name, job |-> job,
                                     err |-> r.err])
    /\ UNCHANGED <<storeVars, session, alive, cancelled, pc, isLeader, cronRunning, discPc,
                   dWorkers, watchQ, clients, lastDispatch, rpcs, execs, now, jobExecTotal, wAlive, pending, lastReply>>

\* A caller invokes RemoveJob(name) on the engine of master m.
CallRemoveJob(m, name) ==
    /\ alive[m]
    /\ LET r == RemoveJob(Wheel(m), name)
       IN /\ entries' = [entries EXCEPT ![m] = r.entries]
          /\ jobs' = [jobs EXCEPT ![m] = r.jobs]
          /\ unmapped' = [unmapped EXCEPT ![m] = r.unmapped]
          /\ engineLog' = Logged(m, [op |-> "RemoveJob", name |-> name, job |-> NoJob,
                                     err |-> r.err])
    /\ UNCHANGED <<storeVars, session, alive, cancelled, pc, isLeader, cronRunning, discPc,
                   dWorkers, watchQ, clients, lastDispatch, rpcs, execs, now, jobExecTotal, wAlive, pending, lastReply>>

\* cronScheduler.AddJob has no lock: calls from different goroutines (HTTP
\* handlers, the supervisor's job load) interleave between its reads and
\* writes of s.jobs. A call begins: it looks the name up and removes the entry
\* the name maps to; removing an id that is no longer in the wheel does
\* nothing.
RemoveMapped(wheel, name) ==
    IF name \in wheel.jobs
    THEN [wheel.entries EXCEPT ![name] = NoJob]
    ELSE wheel.entries

BeginAddJob(m, job) ==
    /\ alive[m]
    /\ entries' = [entries EXCEPT ![m] = RemoveMapped(Wheel(m), job.name)]
    /\ pending' = [pending EXCEPT ![m] = Append(@, job)]
    /\ UNCHANGED <<storeVars, session, alive, cancelled, pc, isLeader, cronRunning, jobs, unmapped,
                   engineLog, discPc, dWorkers, watchQ, clients, lastDispatch, rpcs, execs, now,
                   jobExecTotal, wAlive, lastReply>>

\* The call goes on: cron.AddJob installs a new entry when the expression
\* parses, and s.jobs[name] is overwritten with its id. An entry another call
\* has mapped in the meantime stays in the wheel with no name mapping to it.
InstallEntry(wheel, job) ==
    IF ParsesAsCron(job.cron_expr)
    THEN [entries |-> [wheel.entries EXCEPT ![job.name] = job],
          jobs |-> wheel.jobs \cup {job.name},
          unmapped |-> IF wheel.entries[job.name] # NoJob
                       THEN [wheel.unmapped EXCEPT
                               ![job.name] = Append(@, wheel.entries[job.name])]
                       ELSE wheel.unmapped,
          err |-> FALSE]
    ELSE [entries |-> wheel.entries, jobs |-> wheel.jobs, unmapped |-> wheel.unmapped,
          err |-> TRUE]

FinishAddJob(m, k) ==
    /\ alive[m] /\ k \in DOMAIN pending[m]
    /\ LET r == InstallEntry(Wheel(m), pending[m][k])
       IN /\ entries' = [entries EXCEPT ![m] = r.entries]
          /\ jobs' = [jobs EXCEPT ![m] = r.jobs]
          /\ unmapped' = [unmapped EXCEPT ![m] = r.unmapped]
    /\ pending' = [pending EXCEPT ![m] =
                      SubSeq(@, 1, k - 1) \o SubSeq(@, k + 1, Len(@))]
    /\ UNCHANGED <<storeVars, session, alive, cancelled, pc, isLeader, cronRunning,
                   engineLog, discPc, dWorkers, watchQ, clients, lastDispatch, rpcs, execs, now,
                   jobExecTotal, wAlive, lastReply>>

\* Two goroutines access the map s.jobs at once: the runtime may detect the
\* concurrent map access and end the process.
MapRaceFatal(m) ==
    /\ Len(pending[m]) > 1
    /\ Crash(m)

(***************************************************************************)
(* Master: the management API (JobService).                                *)
(***************************************************************************)

\* JobService.Save behind the validating handler: the store write, then the
\* wheel of the replica that served the request.
SaveJob(m, job, putOk) ==
    /\ alive[m]
    /\ \E id \in JobIds :
         LET valid == Validate(job)
             saved == Stamp(valid, id, now)
             r == AddJob(Wheel(m), saved)
         IN IF valid # ValidationErr /\ putOk
            THEN /\ jobStore' = [jobStore EXCEPT ![job.name] = Marshal(saved)]
                 /\ entries' = [entries EXCEPT ![m] = r.entries]
                 /\ jobs' = [jobs EXCEPT ![m] = r.jobs]
                 /\ unmapped' = [unmapped EXCEPT ![m] = r.unmapped]
            ELSE UNCHANGED <<jobStore, entries, jobs, unmapped>>
    /\ UNCHANGED <<leaderKeys, pred, regKeys, deregistered, history, lockHolder, session, alive,
                   cancelled, pc, isLeader, cronRunning, engineLog, discPc, dWorkers, watchQ, clients, lastDispatch,
                   rpcs, execs, now, jobExecTotal, wAlive, pending, lastReply>>

\* JobService.Delete: the wheel of the serving replica first, then the store.
DeleteJob(m, name, delOk) ==
    /\ alive[m]
    /\ LET r == RemoveJob(Wheel(m), name)
       IN /\ entries' = [entries EXCEPT ![m] = r.entries]
          /\ jobs' = [jobs EXCEPT ![m] = r.jobs]
          /\ unmapped' = [unmapped EXCEPT ![m] = r.unmapped]
    /\ jobStore' = IF delOk THEN [jobStore EXCEPT ![name] = NoJob] ELSE jobStore
    /\ UNCHANGED <<leaderKeys, pred, regKeys, deregistered, history, lockHolder, session, alive,
                   cancelled, pc, isLeader, cronRunning, engineLog, discPc, dWorkers, watchQ, clients, lastDispatch,
                   rpcs, execs, now, jobExecTotal, wAlive, pending, lastReply>>

(***************************************************************************)
(* Master: a firing of the wheel and its dispatch.                         *)
(***************************************************************************)

\* Dispatcher.domainToProto: the TaskRequest of a job; the executor message
\* that is set follows the executor type.
DomainToProto(job) ==
    [id |-> job.id, name |-> job.name, cron_expr |-> job.cron_expr,
     executor_type |-> job.executor_type,
     concurrency_policy |-> job.concurrency_policy,
     created_at |-> job.created_at,
     http_executor |-> IF job.executor_type = ExecutorTypeHTTP
                       THEN [url |-> job.executor.url, method |-> job.executor.method]
                       ELSE NoMsg,
     shell_executor |-> IF job.executor_type = ExecutorTypeShell
                        THEN [command |-> job.executor.command]
                        ELSE NoMsg,
     retry_policy |-> IF job.retry_policy # NoRetryPolicy
                      THEN [max_retries |-> job.retry_policy.max_retries,
                            backoff |-> DurationString(job.retry_policy.backoff)]
                      ELSE NoMsg]

\* Handlers of this master's wheel that are still inside Run().
InFlight(m) == {r \in BagToSet(rpcs) : r.from = m}

\* cronJobWrapper.Run -> Dispatcher.DispatchTask for one entry of a running
\* wheel: with no worker known the call fails; otherwise an address is
\* picked, its client is cached and ExecuteTask is sent.
NoWorkersErr == <<"no available workers to dispatch job">>
RpcErr == <<"failed to execute task via gRPC">>
Fire(m, name) ==
    /\ alive[m] /\ cronRunning[m] /\ entries[m][name] # NoJob
    /\ IF GetWorkers(m) = {}
       THEN /\ lastDispatch' = [lastDispatch EXCEPT ![m] = NoWorkersErr]
            /\ UNCHANGED <<clients, rpcs>>
       ELSE \E addr \in GetWorkers(m) :
              /\ clients' = [clients EXCEPT ![m] = @ \cup {addr}]
              /\ rpcs' = rpcs (+) SetToBag({[from |-> m, to |-> addr,
                                             req |-> DomainToProto(entries[m][name])]})
              /\ lastDispatch' = [lastDispatch EXCEPT ![m] = NoErr]
    /\ UNCHANGED <<storeVars, session, alive, cancelled, pc, isLeader, cronRunning,
                   entries, jobs, unmapped, engineLog, discPc, dWorkers, watchQ, execs, now, jobExecTotal, wAlive, pending, lastReply>>

\* The ExecuteTask call fails (the worker is unreachable): DispatchTask
\* returns the error, Run logs it.
\* The client cache after a failed call to addr: DispatchTask returns the
\* error and leaves d.clients as it is.
ClientsEvicted(cs, addr) == cs \ {addr}
ClientsAfterError(cs, addr) == cs
RpcError(r) ==
    /\ BagIn(r, rpcs)
    /\ rpcs' = rpcs (-) SetToBag({r})
    /\ lastDispatch' = [lastDispatch EXCEPT ![r.from] = IF alive[r.from] THEN RpcErr ELSE @]
    /\ clients' = [clients EXCEPT ![r.from] = ClientsAfterError(@, r.to)]
    /\ UNCHANGED <<storeVars, session, alive, cancelled, pc, isLeader, cronRunning,
                   entries, jobs, unmapped, engineLog, discPc, dWorkers, watchQ, execs, now,
                   jobExecTotal, wAlive, pending, lastReply>>

\* The Done channel of the context Run hands to DispatchTask and DispatchTask
\* to client.ExecuteTask: the context is made from context.Background(), which
\* is never done, whatever happens to the root context of the master.
CanceledErr == <<"context canceled">>
RunCtxDone(m) == FALSE

\* client.ExecuteTask returns because its context is done: the call is
\* abandoned, DispatchTask returns the context's error, Run logs it.
RpcCancelled(r) ==
    /\ BagIn(r, rpcs)
    /\ alive[r.from] /\ RunCtxDone(r.from)
    /\ rpcs' = rpcs (-) SetToBag({r})
    /\ lastDispatch' = [lastDispatch EXCEPT ![r.from] = CanceledErr]
    /\ UNCHANGED <<storeVars, session, alive, cancelled, pc, isLeader, cronRunning,
                   entries, jobs, unmapped, engineLog, discPc, dWorkers, watchQ, clients, execs, now,
                   jobExecTotal, wAlive, pending, lastReply>>

LeaderNext ==
    \/ \E m \in Masters : LoadInitialWorkers(m, TRUE)
    \/ \E m \in Masters : OpenWatch(m)
    \/ \E m \in Masters : StartCampaign(m)
    \/ \E m \in Masters : CampaignWon(m)
    \/ \E m \in Masters : CampaignCancelled(m)
    \/ \E m \in Masters : RunSchedular(m)
    \/ \E m \in Masters : LeadershipLost(m)
    \/ \E m \in Masters : SupervisorExit(m)
    \/ \E m \in Masters : EngineStop(m)
    \/ \E m \in Masters : Cancel(m)
    \/ \E m \in Masters : Crash(m)
    \/ \E m \in Masters : SessionExpire(m)
    \/ \E m \in Masters, name \in JobNames :
          BagCardinality(rpcs) < MaxInflight /\ Fire(m, name)
    \/ \E r \in BagToSet(rpcs) : RpcError(r)

ApiNext ==
    \/ \E m \in Masters, job \in JobInputs, putOk \in BOOLEAN : SaveJob(m, job, putOk)
    \/ \E m \in Masters, name \in JobNames, delOk \in BOOLEAN : DeleteJob(m, name, delOk)

(***************************************************************************)
(* Worker: the gRPC server (Server.ExecuteTask, Server.runJob).            *)
(***************************************************************************)

ParseError == [name |-> "parse error"]

\* Server.protoToDomain: the job of a TaskRequest, or an error when the
\* executor type is unknown, its executor message is missing or the backoff
\* does not parse. The update time is not part of the message.
ProtoToDomain(req) ==
    IF /\ \/ req.executor_type = ExecutorTypeHTTP /\ req.http_executor # NoMsg
          \/ req.executor_type = ExecutorTypeShell /\ req.shell_executor # NoMsg
       /\ req.retry_policy # NoMsg => ParsesAsDuration(req.retry_policy.backoff)
    THEN [id |-> req.id, name |-> req.name, cron_expr |-> req.cron_expr,
          executor_type |-> req.executor_type,
          executor |-> IF req.executor_type = ExecutorTypeHTTP
                       THEN [url |-> req.http_executor.url,
                             method |-> req.http_executor.method, command |-> ""]
                       ELSE [url |-> "", method |-> "",
                             command |-> req.shell_executor.command],
          concurrency_policy |-> req.concurrency_policy,
          retry_policy |-> IF req.retry_policy = NoMsg THEN NoRetryPolicy
                           ELSE [max_retries |-> req.retry_policy.max_retries,
                                 backoff |-> ParseDuration(req.retry_policy.backoff)],
          created_at |-> req.created_at, updated_at |-> ZeroTime]
    ELSE ParseError

\* The key of an execution record in etcd: /cron/history/<job_name>/<id>.
HistoryKeyPerJob(record) == <<record.job_name, 0>>
HistoryKey(record) == <<record.job_name, record.id>>

\* etcdExecutionRepository.Save: a put of the record under its key.
SaveRecord(store, record) ==
    [k \in DOMAIN store \cup {HistoryKey(record)} |->
        IF k = HistoryKey(record) THEN record ELSE store[k]]

\* The record runJob creates before anything else.
InitialRecord(id, job, w, t) ==
    [id |-> id, job_name |-> job.name, start_time |-> t, end_time |-> ZeroTime,
     status |-> ExecutionStatusRunning, output |-> "", error |-> NoErr,
     worker_id |-> w]

\* concurrency.Mutex.TryLock as etcdLocker.Lock uses it: the lock is taken
\* only when no session holds it.
TryLockBlind(holder) == TRUE
TryLock(holder) == holder = NoHolder

\* The deferred status update of runJob: failed with the error's text when
\* execErr is set, success otherwise.
StatusDeferAlwaysSuccess(execErr) == ExecutionStatusSuccess
StatusDeferAlwaysFailed(execErr) == ExecutionStatusFailed
StatusDeferKeepsRunning(execErr) ==
    IF execErr # NoErr THEN ExecutionStatusFailed ELSE ExecutionStatusRunning
StatusDefer(execErr) ==
    IF execErr # NoErr THEN ExecutionStatusFailed ELSE ExecutionStatusSuccess

\* The deferred final update of runJob: EndTime is the time of the update.
EndTimeUnset(t) == ZeroTime
EndTimeAtFinal(t) == t

\* Where runJob goes once it may execute: to the executor registered for the
\* job's type, or back out with an error when there is none.
NoExecutorErr == <<"no executor found for type">>
LookupExecutor(e) ==
    IF e.job.executor_type \in Executors
    THEN [e EXCEPT !.pc = "executing"]
    ELSE [e EXCEPT !.execErr = NoExecutorErr,
                   !.pc = IF e.lock THEN "unlock" ELSE "finalize"]

\* The TaskResponse of ExecuteTask: the error's text in error_message for a
\* request that did not parse, the new id in execution_id otherwise. A field
\* that is not set is empty.
InvalidTaskErr == <<"invalid task request">>
TaskResponseBoth(job, id) ==
    [execution_id |-> <<id>>, error_message |-> InvalidTaskErr]
TaskResponse(job, id) ==
    IF job = ParseError
    THEN [execution_id |-> <<>>, error_message |-> InvalidTaskErr]
    ELSE [execution_id |-> <<id>>, error_message |-> <<>>]

\* What ExecuteTask leaves behind when it returns: `go s.runJob(...)` has
\* spawned the goroutine of the execution, which has not taken a step.
RanInline(id, job, w) ==
    [id |-> id, job |-> job, worker |-> w, pc |-> "done", execErr |-> NoErr,
     panicking |-> FALSE, lock |-> FALSE, attempts |-> <<>>,
     record |-> [InitialRecord(id, job, w, ZeroTime) EXCEPT !.status = ExecutionStatusSuccess]]
NewExecution(id, job, w) ==
    [id |-> id, job |-> job, worker |-> w, pc |-> "start", execErr |-> NoErr,
     panicking |-> FALSE, lock |-> FALSE, attempts |-> <<>>,
     record |-> InitialRecord(id, job, w, ZeroTime)]

\* Server.ExecuteTask: a request that does not parse is answered with an
\* error message; otherwise an execution id is allocated, runJob is spawned
\* and the id is returned.
ExecuteTask(w, r) ==
    /\ wAlive[w]
    /\ r.to = GrpcListenAddr
    /\ rpcs' = rpcs (-) SetToBag({r})
    /\ LET job == ProtoToDomain(r.req)
       IN /\ execs' = IF job = ParseError THEN execs
                      ELSE Append(execs, NewExecution(Len(execs) + 1, job, w))
          /\ lastReply' = TaskResponse(job, Len(execs) + 1)
    /\ UNCHANGED <<storeVars, session, masterVars, now, jobExecTotal, wAlive>>

\* runJob, up to the first save: the record is created with the current time
\* and status running and is saved; a failed save is only logged. An Allow
\* job goes on to its executor, a Forbid job to the lock.
AbortIfNotSaved(e, saveOk) ==
    IF ~saveOk
    THEN [e EXCEPT !.execErr = <<"failed to save initial execution record">>, !.pc = "finalize"]
    ELSE IF e.job.concurrency_policy = ConcurrencyPolicyForbid
    THEN [e EXCEPT !.pc = "gate"]
    ELSE LookupExecutor(e)
GateAlways(e, saveOk) == [e EXCEPT !.pc = "gate"]
AfterInitialSave(e, saveOk) ==
    IF e.job.concurrency_policy = ConcurrencyPolicyForbid
    THEN [e EXCEPT !.pc = "gate"]
    ELSE LookupExecutor(e)
SaveInitial(i, saveOk) ==
    /\ i \in DOMAIN execs /\ execs[i].pc = "start"
    /\ wAlive[execs[i].worker]
    /\ LET e == execs[i]
           rec == InitialRecord(e.id, e.job, e.worker, now)
           e1 == [e EXCEPT !.record = rec]
       IN /\ history' = IF saveOk THEN SaveRecord(history, rec) ELSE history
          /\ execs' = [execs EXCEPT ![i] = AfterInitialSave(e1, saveOk)]
    /\ UNCHANGED <<jobStore, leaderKeys, pred, regKeys, deregistered, lockHolder, session, masterVars,
                   rpcs, now, jobExecTotal, wAlive, lastReply>>

\* runJob at the lock of a Forbid job: etcdLocker.Lock opens a session and
\* tries the mutex once, under a deadline of 100ms. Holding it, runJob goes on
\* to the executor; any error ends the execution as skipped. A TryLock that
\* runs into the deadline is reported as ErrLockNotAcquired; one that finds
\* the mutex held returns at once with the library's "locked by another
\* session" error, which Lock wraps like any other error.
LockErr == <<"skipped execution", "failed to try acquiring etcd lock">>
SessionErr == <<"skipped execution", "failed to create etcd session for lock">>
LockNotAcquiredErr == <<"skipped execution", "lock not acquired">>
SkipErr(sessionOk, timely) ==
    IF ~sessionOk THEN SessionErr
    ELSE IF ~timely THEN LockNotAcquiredErr
    ELSE LockErr
GateRunsAnyway(i, sessionOk, timely) ==
    /\ i \in DOMAIN execs /\ execs[i].pc = "gate"
    /\ LET e == execs[i]
           n == e.job.name
       IN IF sessionOk /\ timely /\ TryLock(lockHolder[n])
          THEN /\ lockHolder' = [lockHolder EXCEPT ![n] = e.id]
               /\ execs' = [execs EXCEPT ![i] = LookupExecutor([e EXCEPT !.lock = TRUE])]
          ELSE /\ lockHolder' = lockHolder
               /\ execs' = [execs EXCEPT ![i] =
                              LookupExecutor([e EXCEPT !.execErr = SkipErr(sessionOk, timely)])]
    /\ UNCHANGED <<jobStore, leaderKeys, pred, regKeys, deregistered, history, session, masterVars,
                   rpcs, now, jobExecTotal, wAlive, lastReply>>
Gate(i, sessionOk, timely) ==
    /\ i \in DOMAIN execs /\ execs[i].pc = "gate"
    /\ wAlive[execs[i].worker]
    /\ LET e == execs[i]
           n == e.job.name
       IN IF sessionOk /\ timely /\ TryLock(lockHolder[n])
          THEN /\ lockHolder' = [lockHolder EXCEPT ![n] = e.id]
               /\ execs' = [execs EXCEPT ![i] = LookupExecutor([e EXCEPT !.lock = TRUE])]
          ELSE /\ lockHolder' = lockHolder
               /\ execs' = [execs EXCEPT ![i] =
                              [e EXCEPT !.execErr = SkipErr(sessionOk, timely),
                                        !.pc = "finalize"]]
    /\ UNCHANGED <<jobStore, leaderKeys, pred, regKeys, deregistered, history, session, masterVars,
                   rpcs, now, jobExecTotal, wAlive, lastReply>>

\* executor.Execute returns an output, returns an error, or panics.
ExecutorErr == <<"executor error">>
ExecOutcomes == {"ok", "err", "panic"}
ExecEnd(i, outcome) ==
    /\ i \in DOMAIN execs /\ execs[i].pc = "executing"
    /\ wAlive[execs[i].worker]
    /\ LET e == execs[i]
           next == IF e.lock THEN "unlock" ELSE "finalize"
       IN execs' = [execs EXCEPT ![i] =
              CASE outcome = "ok" ->
                     [e EXCEPT !.record.output = "out", !.pc = next]
                [] outcome = "err" ->
                     [e EXCEPT !.record.output = "out", !.execErr = ExecutorErr, !.pc = next]
                [] outcome = "panic" ->
                     [e EXCEPT !.panicking = TRUE, !.pc = next]]
    /\ UNCHANGED <<storeVars, session, masterVars, rpcs, now, jobExecTotal, wAlive, lastReply>>

(***************************************************************************)
(* Worker: the HTTP executor (httpTaskExecutor).                           *)
(***************************************************************************)

\* What the network does with one request: a response with a status and a
\* body, or a failure of client.Do that is a timeout or is not.
HttpResults ==
    { [kind |-> "response", status |-> 200, body |-> "body 200"],
      [kind |-> "response", status |-> 503, body |-> "body 503"],
      [kind |-> "response", status |-> 404, body |-> "body 404"],
      [kind |-> "failure", cause |-> "timeout"],
      [kind |-> "failure", cause |-> "connection refused"] }

\* The texts of this model that contain the substring "5xx".
With5xx == {"http request returned 5xx server error", "http://svc/5xx/run"}

\* httpTaskExecutor.doExecute: one request. An error is the chain of its
\* messages, outermost first; a failure of client.Do is a *url.Error that
\* quotes the method and the URL and wraps its cause.
DoExecute(job, res) ==
    IF res.kind = "failure"
    THEN [output |-> "",
          err |-> <<"http request failed", job.executor.method, job.executor.url, res.cause>>]
    ELSE IF res.status >= 500
    THEN [output |-> res.body, err |-> <<"http request returned 5xx server error">>]
    ELSE IF res.status >= 400
    THEN [output |-> res.body, err |-> <<"http request returned 4xx client error">>]
    ELSE [output |-> res.body, err |-> NoErr]

\* The test of the retry loop on an error: errors.As finds a net.Error whose
\* Timeout() is true, or the error's text contains "5xx".
Retries(err) ==
    \/ err[Len(err)] = "timeout"
    \/ \E k \in DOMAIN err : err[k] \in With5xx

\* The loop of httpTaskExecutor.Execute from attempt i on (i counts from 0).
\* The output declared before the loop is never assigned: the loop's own
\* output is returned from inside the loop only.
RECURSIVE RetryLoop(_, _, _)
RetryLoop(job, results, i) ==
    LET r == DoExecute(job, results[i + 1])
    IN IF r.err = NoErr
       THEN [attempts |-> i + 1, output |-> r.output, err |-> NoErr]
       ELSE IF ~Retries(r.err)
       THEN [attempts |-> i + 1, output |-> r.output,
             err |-> <<"non-retriable error on attempt">> \o r.err]
       ELSE IF i = job.retry_policy.max_retries
       THEN [attempts |-> i + 1, output |-> "",
             err |-> <<"job failed after retries">> \o r.err]
       ELSE RetryLoop(job, results, i + 1)

\* httpTaskExecutor.Execute: a single request without a retry policy or with
\* max_retries = 0, the retry loop otherwise. results[k] is what the network
\* does with the k-th request.
Execute(job, results) ==
    IF job.retry_policy = NoRetryPolicy \/ job.retry_policy.max_retries = 0
    THEN LET r == DoExecute(job, results[1])
         IN [attempts |-> 1, output |-> r.output, err |-> r.err]
    ELSE RetryLoop(job, results, 0)

\* The requests Execute may make for a job, at most.
MaxAttempts(job) ==
    IF job.retry_policy = NoRetryPolicy THEN 1 ELSE job.retry_policy.max_retries + 1

\* runJob calls the HTTP executor and it returns: the requests it made are
\* kept with the execution.
ExecHttp(i, results) ==
    /\ i \in DOMAIN execs /\ execs[i].pc = "executing"
    /\ wAlive[execs[i].worker]
    /\ execs[i].job.executor_type = ExecutorTypeHTTP
    /\ LET e == execs[i]
           r == Execute(e.job, results)
       IN execs' = [execs EXCEPT ![i] =
              [e EXCEPT !.record.output = r.output, !.execErr = r.err,
                        !.attempts = SubSeq(results, 1, r.attempts),
                        !.pc = IF e.lock THEN "unlock" ELSE "finalize"]]
    /\ UNCHANGED <<storeVars, session, masterVars, rpcs, now, jobExecTotal, wAlive, lastReply>>

\* etcdLock.Unlock on the key of a lock: mutex.Unlock deletes the key; the
\* deferred session.Close stops the keep-alive and revokes the lease, which
\* deletes the key as well. When both fail the key stays with its lease.
ReleaseNever(holder, unlockOk, closeOk) == holder
Release(holder, unlockOk, closeOk) ==
    IF unlockOk \/ closeOk THEN NoHolder ELSE holder

\* The deferred unlock of runJob: the error of Unlock is only logged.
Unlock(i, unlockOk, closeOk) ==
    /\ i \in DOMAIN execs /\ execs[i].pc = "unlock"
    /\ wAlive[execs[i].worker]
    /\ lockHolder' = [lockHolder EXCEPT ![execs[i].job.name] = Release(@, unlockOk, closeOk)]
    /\ execs' = [execs EXCEPT ![i] = [@ EXCEPT !.lock = FALSE, !.pc = "finalize"]]
    /\ UNCHANGED <<jobStore, leaderKeys, pred, regKeys, deregistered, history, session, masterVars,
                   rpcs, now, jobExecTotal, wAlive, lastReply>>

\* The lease of a lock session that is no longer kept alive - its execution
\* has closed it or is past its unlock - runs out: etcd deletes the key.
LockLeaseExpire(n) ==
    /\ lockHolder[n] # NoHolder
    /\ \E i \in DOMAIN execs : execs[i].id = lockHolder[n] /\ ~execs[i].lock
    /\ lockHolder' = [lockHolder EXCEPT ![n] = NoHolder]
    /\ UNCHANGED <<jobStore, leaderKeys, pred, regKeys, deregistered, history, session, masterVars,
                   rpcs, execs, now, jobExecTotal, wAlive, lastReply>>

\* The two remaining deferred functions of runJob: the status follows
\* execErr and the execution counter is incremented; then EndTime is set, a
\* panic is recovered into status failed, and the record is saved.
PanicErr == <<"panic: ">>

\* The worker process after the deferred functions of runJob have run on a
\* panic: recover() in the final update stops the panic, the process lives.
PanicKills(up) == FALSE
Recovered(up) == up
Finalize(i, saveOk) ==
    /\ i \in DOMAIN execs /\ execs[i].pc = "finalize"
    /\ wAlive[execs[i].worker]
    /\ LET e == execs[i]
           counted == StatusDefer(e.execErr)
           rec == [e.record EXCEPT
                     !.status = IF e.panicking THEN ExecutionStatusFailed ELSE counted,
                     !.error = IF e.panicking THEN PanicErr ELSE e.execErr,
                     !.end_time = EndTimeAtFinal(now)]
       IN /\ jobExecTotal' = IF counted = ExecutionStatusRunning THEN jobExecTotal
                             ELSE [jobExecTotal EXCEPT ![<<e.job.name, counted>>] = @ + 1]
          /\ history' = IF saveOk THEN SaveRecord(history, rec) ELSE history
          /\ execs' = [execs EXCEPT ![i] =
                         [e EXCEPT !.record = rec, !.panicking = FALSE, !.pc = "done"]]
          /\ wAlive' = IF e.panicking THEN [wAlive EXCEPT ![e.worker] = Recovered(@)]
                        ELSE wAlive
    /\ UNCHANGED <<jobStore, leaderKeys, pred, regKeys, deregistered, lockHolder, session, masterVars,
                   rpcs, now, lastReply>>

\* Time passes.
Tick ==
    /\ now' = now + 1
    /\ UNCHANGED <<storeVars, session, masterVars, rpcs, execs, jobExecTotal, wAlive, lastReply>>

\* The ExecuteTask calls a dispatcher can make: one per stored job.
Requests ==
    {[from |-> m, to |-> GrpcListenAddr, req |-> DomainToProto(SavedJob(n))] :
        m \in Masters, n \in JobNames}

\* The steps of one runJob goroutine, with the store and the executor free to
\* fail.
RunJobNext(i) ==
    \/ \E saveOk \in BOOLEAN : SaveInitial(i, saveOk)
    \/ \E sessionOk, timely \in BOOLEAN : Gate(i, sessionOk, timely)
    \/ \E outcome \in ExecOutcomes : ExecEnd(i, outcome)
    \/ Unlock(i, TRUE, TRUE)
    \/ \E saveOk \in BOOLEAN : Finalize(i, saveOk)

\* The workers under any interleaving of ExecuteTask calls.
ExecNext ==
    \/ \E w \in Workers, r \in Requests : Len(execs) < MaxExecs /\ ExecuteTask(w, r)
    \/ \E i \in 1..MaxExecs : RunJobNext(i)

SpecExec == Init /\ [][ExecNext]_vars

\* One worker under any interleaving of ExecuteTask calls while time passes,
\* the store answering every call.
ClockNext ==
    \/ \E r \in Requests : Len(execs) < MaxExecs /\ ExecuteTask("w1", r)
    \/ \E i \in 1..MaxExecs :
          \/ SaveInitial(i, TRUE)
          \/ Gate(i, TRUE, TRUE)
          \/ \E outcome \in ExecOutcomes : ExecEnd(i, outcome)
          \/ Unlock(i, TRUE, TRUE)
          \/ Finalize(i, TRUE)
    \/ now < MaxClock /\ Tick

SpecClock == Init /\ [][ClockNext]_vars

Next ==
    \/ LeaderNext
    \/ ApiNext
    \/ \E m \in Masters : HandleEvent(m)
    \/ \E m \in Masters : WatchClosed(m)
    \/ \E m \in Masters : WatchCanceled(m)
    \/ \E w \in Workers : Register(w)
    \/ \E w \in Workers : Deregister(w)
    \/ \E w \in Workers, r \in BagToSet(rpcs) : Len(execs) < MaxExecs /\ ExecuteTask(w, r)
    \/ \E i \in 1..MaxExecs : RunJobNext(i)
    \/ \E i \in DOMAIN execs :
          \E results \in [1..MaxAttempts(execs[i].job) -> HttpResults] : ExecHttp(i, results)
    \/ \E i \in DOMAIN execs : \E unlockOk, closeOk \in BOOLEAN : Unlock(i, unlockOk, closeOk)
    \/ \E n \in JobNames : LockLeaseExpire(n)
    \/ now < MaxClock /\ Tick

\* The whole system from its construction.
Spec == Init /\ [][Next]_vars

\* The control plane of the masters over a store that already holds job
\* definitions.
SpecLeader == InitLeader /\ [][LeaderNext]_vars

\* What the runtime guarantees to happen: a goroutine that can take its next
\* step takes it, the lease of a dead process runs out, a failing call returns.
LeaderFairness ==
    /\ \A m \in Masters :
         /\ WF_vars(LoadInitialWorkers(m, TRUE))
         /\ WF_vars(OpenWatch(m))
         /\ WF_vars(StartCampaign(m))
         /\ WF_vars(CampaignWon(m))
         /\ WF_vars(RunSchedular(m))
         /\ WF_vars(LeadershipLost(m))
         /\ WF_vars(~alive[m] /\ SessionExpire(m))
    /\ WF_vars(\E r \in BagToSet(rpcs) : RpcError(r))

FairSpecLeader == SpecLeader /\ LeaderFairness

\* The API of every replica in use while the masters campaign and lead, the
\* processes staying up and the store accepting every write.
ApiLeaderNext ==
    \/ \E m \in Masters : StartCampaign(m)
    \/ \E m \in Masters : CampaignWon(m)
    \/ \E m \in Masters : RunSchedular(m)
    \/ \E m \in Masters, job \in JobInputs : SaveJob(m, job, TRUE)
    \/ \E m \in Masters, name \in JobNames : DeleteJob(m, name, TRUE)

SpecApi == InitLeader /\ [][ApiLeaderNext]_vars

\* The API of every replica in use, each write to the store free to fail.
SpecApiFail == Init /\ [][ApiNext]_vars

\* The engine alone: callers add and remove jobs on each master's wheel.
WheelNext ==
    \E m \in Masters :
       \/ \E job \in EngineInputs : CallAddJob(m, job)
       \/ \E name \in JobNames : CallRemoveJob(m, name)

SpecWheel == Init /\ [][WheelNext]_vars

\* The engine of one master under concurrent callers: AddJob calls that overlap, RemoveJob
\* calls between their steps. New calls begin while the wheel has no entry
\* without a name.
RaceNext ==
    \E m \in {"m1"} :
       \/ \E job \in JobInputs :
             /\ Len(pending[m]) < MaxPending
             /\ \A n \in JobNames : unmapped[m][n] = <<>>
             /\ BeginAddJob(m, job)
       \/ \E k \in 1..MaxPending : FinishAddJob(m, k)
       \/ \E name \in JobNames : CallRemoveJob(m, name)
       \/ MapRaceFatal(m)

SpecRace == Init /\ [][RaceNext]_vars

\* The http jobs of the retry checks: no policy or up to two retries, to a
\* URL with or without "5xx" in its path.
HttpJobs ==
    {Stamp(ToDomainJob(
        [name |-> "j2", cron_expr |-> "*/1 * * * * *", executor_type |-> ExecutorTypeHTTP,
         executor |-> [url |-> u, method |-> "GET", command |-> ""],
         concurrency_policy |-> ConcurrencyPolicyAllow, retry_policy |-> p]), "u1", 1) :
        u \in {"http://svc/run", "http://svc/5xx/run"},
        p \in {NoRetryPolicy} \cup {[max_retries |-> n, backoff |-> "1s"] : n \in 0..2}}

\* One execution of an http job on worker w1, the network answering each
\* request in any way.
HttpNext ==
    \/ \E job \in HttpJobs :
          /\ execs = <<>>
          /\ ExecuteTask("w1", [from |-> "m1", to |-> GrpcListenAddr,
                                req |-> DomainToProto(job)])
    \/ \E i \in DOMAIN execs :
          \/ SaveInitial(i, TRUE)
          \/ \E results \in [1..MaxAttempts(execs[i].job) -> HttpResults] :
                ExecHttp(i, results)
          \/ Finalize(i, TRUE)

SpecHttp == Init /\ [][HttpNext]_vars

\* The TaskRequests of the acceptance checks: the requests of the two saved
\* jobs, and requests protoToDomain rejects - an executor type no case
\* handles, an http request without its executor message, a retry policy
\* whose backoff does not parse.
AcceptRequests ==
    LET http == DomainToProto(SavedJob("j2"))
    IN {DomainToProto(SavedJob("j1")), http,
        [http EXCEPT !.executor_type = "grpc"],
        [http EXCEPT !.http_executor = NoMsg],
        [http EXCEPT !.retry_policy = [max_retries |-> 1, backoff |-> "soon"]]}

\* One worker answering ExecuteTask calls of any of these requests while
\* the executions it has started run.
AcceptNext ==
    \/ \E req \in AcceptRequests :
          /\ Len(execs) < MaxExecs
          /\ ExecuteTask("w1", [from |-> "m1", to |-> GrpcListenAddr, req |-> req])
    \/ \E i \in DOMAIN execs :
          \/ SaveInitial(i, TRUE)
          \/ Gate(i, TRUE, TRUE)
          \/ \E outcome \in ExecOutcomes : ExecEnd(i, outcome)
          \/ Unlock(i, TRUE, TRUE)
          \/ Finalize(i, TRUE)

SpecAccept == Init /\ [][AcceptNext]_vars

\* One master that starts, wins the election and fires its wheel, and a
\* worker that answers its calls and runs the executions; an executor is free
\* never to return.
DispatchNext ==
    \/ LoadInitialWorkers("m1", TRUE)
    \/ OpenWatch("m1")
    \/ StartCampaign("m1")
    \/ CampaignWon("m1")
    \/ RunSchedular("m1")
    \/ \E name \in JobNames : BagCardinality(rpcs) < MaxInflight /\ Fire("m1", name)
    \/ \E r \in BagToSet(rpcs) : Len(execs) < MaxExecs /\ ExecuteTask("w1", r)
    \/ \E i \in DOMAIN execs :
          \/ SaveInitial(i, TRUE)
          \/ Gate(i, TRUE, TRUE)
          \/ \E outcome \in ExecOutcomes : ExecEnd(i, outcome)
          \/ Unlock(i, TRUE, TRUE)
          \/ Finalize(i, TRUE)

SpecDispatch == InitLeader /\ [][DispatchNext]_vars

\* The Forbid jobs of the lock checks: the shell job j1, and j2 as a Forbid
\* http job with one retry.
LockJobs ==
    {SavedJob("j1"),
     [SavedJob("j2") EXCEPT !.concurrency_policy = ConcurrencyPolicyForbid,
                            !.retry_policy = [max_retries |-> 1, backoff |-> 1000000000]]}

\* What the network does in the lock checks: a success or a 5xx response.
LockResults == {res \in HttpResults : res.kind = "response" /\ res.status # 404}

\* Executions of Forbid jobs on one worker: the lock, the executor, the
\* unlock and the closing of the lock session are free to fail, and an
\* abandoned lease runs out.
LockNext ==
    \/ \E job \in LockJobs :
          /\ Len(execs) < MaxExecs
          /\ ExecuteTask("w1", [from |-> "m1", to |-> GrpcListenAddr, req |-> DomainToProto(job)])
    \/ \E i \in DOMAIN execs :
          \/ SaveInitial(i, TRUE)
          \/ \E sessionOk, timely \in BOOLEAN : Gate(i, sessionOk, timely)
          \/ \E outcome \in ExecOutcomes :
                execs[i].job.executor_type = ExecutorTypeShell /\ ExecEnd(i, outcome)
          \/ \E results \in [1..MaxAttempts(execs[i].job) -> LockResults] :
                ExecHttp(i, results)
          \/ \E unlockOk, closeOk \in BOOLEAN : Unlock(i, unlockOk, closeOk)
          \/ Finalize(i, TRUE)
    \/ \E n \in JobNames : LockLeaseExpire(n)

SpecLock == Init /\ [][LockNext]_vars

InitDiscovery ==
    /\ jobStore = [n \in JobNames |-> NoJob]
    /\ leaderKeys = {}
    /\ pred = [m \in Masters |-> {}]
    /\ regKeys \in SUBSET Workers
    /\ deregistered = {}
    /\ history = [k \in {} |-> NoJob]
    /\ lockHolder = [n \in JobNames |-> NoHolder]
    /\ InitMasters /\ InitWorkers

DiscoveryNext ==
    \/ \E m \in Masters, listOk \in BOOLEAN : LoadInitialWorkers(m, listOk)
    \/ \E m \in Masters : OpenWatch(m)
    \/ \E m \in Masters : HandleEvent(m)
    \/ \E w \in Workers : Register(w)
    \/ \E w \in Workers : Deregister(w)

SpecDiscovery == InitDiscovery /\ [][DiscoveryNext]_vars

\* Discovery as above, with watches that the server may cancel.
WatchNext ==
    \/ DiscoveryNext
    \/ \E m \in Masters : WatchCanceled(m)

SpecWatch == InitDiscovery /\ [][WatchNext]_vars

(***************************************************************************)
(* Leader election and the schedule engine.                                *)
(***************************************************************************)

\* The wheel of master m is started and holds an entry it can fire.
Firing(m) == alive[m] /\ cronRunning[m] /\ \E n \in JobNames : entries[m][n] # NoJob

\* The wheel of master m holds every stored job, in its stored form.
Loaded(m) ==
    \A n \in JobNames : jobStore[n] # NoJob => entries[m][n] = ListJobs(jobStore)[n]

\* The supervisor of m is not sitting on a closed session it has yet to
\* notice: it has handled every loss of leadership that happened.
Settled(m) == ~(session[m] = "dead" /\ pc[m] \in {"won", "leading"})

\* C1: no double-firing -- at no time do two master replicas have a firing
\* schedule engine; a master that has handled the loss of its leadership
\* session does not keep firing beside the new leader.
NoDoubleFiring == Cardinality({m \in Masters : Firing(m) /\ Settled(m)}) <= 1

\* C4: at any instant at most one running master answers IsLeader() = true,
\* also after the former leader has handled the death of its session and
\* another master has won the election.
AtMostOneIsLeader ==
    Cardinality({m \in Masters : alive[m] /\ isLeader[m] /\ Settled(m)}) <= 1

\* C5: leader failover -- once the master holding the leader key is dead while
\* another master is campaigning, that master (unless it is stopped or loses
\* its own session) eventually is leader with a started wheel holding every
\* stored job, from which each job is dispatched at its next tick.
LeaderFailover ==
    \A a, b \in Masters :
        (a # b /\ ~alive[a] /\ a \in leaderKeys /\ pred[a] = {}
               /\ alive[b] /\ ~cancelled[b] /\ pc[b] = "campaigning")
        ~> (\/ ~alive[b] \/ cancelled[b] \/ session[b] = "dead"
            \/ (isLeader[b] /\ cronRunning[b] /\ Loaded(b)))

\* C6: every return of runSchedular after a won campaign (the root context
\* still live) leaves the wheel started with an entry for every stored job.
CampaignLoadsAndStarts ==
    [][\A m \in Masters :
          (pc[m] = "won" /\ pc'[m] = "leading" /\ ~cancelled[m])
          => (cronRunning'[m] /\ Loaded(m)')]_vars

\* C7: when the supervisor's call of Stop on leadership loss returns, the
\* wheel is halted and none of its Run handlers is in flight.
StopHaltsEngine ==
    [][\A m \in Masters :
          (pc[m] = "leading" /\ pc'[m] = "loop")
          => (~cronRunning'[m] /\ InFlight(m)' = {})]_vars

(***************************************************************************)
(* Executions on the workers and their records.                            *)
(***************************************************************************)

Terminal == {ExecutionStatusSuccess, ExecutionStatusFailed}

\* The executions of job n that are inside executor.Execute.
Executing(n) == {i \in DOMAIN execs : execs[i].job.name = n /\ execs[i].pc = "executing"}

\* Execution i ended at the lock of its job without holding it.
LostLock(i) == execs[i].execErr \in {LockErr, SessionErr, LockNotAcquiredErr}

\* The record of execution i is in the store.
Stored(i) == HistoryKey(execs[i].record) \in DOMAIN history
StoredRecord(i) == history[HistoryKey(execs[i].record)]

ForbidJobs ==
    {n \in JobNames : SavedJob(n).concurrency_policy = ConcurrencyPolicyForbid}

\* C2: Forbid mutual exclusion -- for every Forbid job, at any instant and
\* across all workers, at most one execution of the job is inside its executor
\* invocation, and that one holds the job mutex.
ForbidMutualExclusion ==
    \A n \in ForbidJobs :
        /\ Cardinality(Executing(n)) <= 1
        /\ \A i \in Executing(n) : execs[i].lock /\ lockHolder[n] = execs[i].id

\* Two executions of a Forbid job on different workers: one is inside the
\* executor, the other was turned away at the lock.
ForbidMutualExclusionWitness ==
    \E n \in ForbidJobs : \E i \in Executing(n) : \E j \in DOMAIN execs :
        /\ execs[j].job.name = n /\ execs[j].worker # execs[i].worker
        /\ execs[j].execErr = LockErr

\* C3 as stated: for a Forbid job at most one execution record in the store
\* has status running at any instant, and an execution that lost the lock is
\* visible in the store only as failed.
OneRunningRecord ==
    /\ \A n \in ForbidJobs :
         Cardinality({k \in DOMAIN history :
                         k[1] = n /\ history[k].status = ExecutionStatusRunning}) <= 1
    /\ \A i \in DOMAIN execs :
         (LostLock(i) /\ Stored(i)) => StoredRecord(i).status = ExecutionStatusFailed

\* C3 as amended: for a Forbid job at most one execution whose stored record
\* has status running holds the job mutex; an execution that lost the lock is
\* never stored as success -- its stored record is the initial running one
\* (end_time zero) until the final save stores failed with a "skipped
\* execution" error.
OneRunningHolder ==
    /\ \A n \in ForbidJobs :
         Cardinality({i \in DOMAIN execs :
                         /\ execs[i].job.name = n /\ execs[i].lock
                         /\ Stored(i) /\ StoredRecord(i).status = ExecutionStatusRunning}) <= 1
    /\ \A i \in DOMAIN execs :
         (LostLock(i) /\ Stored(i)) =>
            \/ /\ StoredRecord(i).status = ExecutionStatusRunning
               /\ StoredRecord(i).end_time = ZeroTime
            \/ /\ StoredRecord(i).status = ExecutionStatusFailed
               /\ Head(StoredRecord(i).error) = "skipped execution"

\* The holder of the lock of a Forbid job is stored as running while an
\* overlapping execution of the job is stored as failed, skipped.
OneRunningHolderWitness ==
    \E i, j \in DOMAIN execs :
        /\ execs[i].job.name = execs[j].job.name /\ execs[i].job.name \in ForbidJobs
        /\ execs[i].lock /\ Stored(i) /\ StoredRecord(i).status = ExecutionStatusRunning
        /\ execs[j].execErr = LockErr /\ Stored(j)
        /\ StoredRecord(j).status = ExecutionStatusFailed

\* C8: per exec_id the records written to the store are monotone -- a key
\* never disappears, a stored terminal record is never replaced (neither by
\* running nor by another terminal record), and running is written only
\* where nothing was stored before.
StatusMonotone ==
    [][\A k \in DOMAIN history :
          /\ k \in DOMAIN history'
          /\ history[k].status \in Terminal => history'[k] = history[k]
          /\ history'[k].status = ExecutionStatusRunning => history'[k] = history[k]]_vars

\* A later execution of a job has written its running record beside the
\* terminal record of an earlier execution of the same job.
StatusMonotoneWitness ==
    \E k1, k2 \in DOMAIN history :
        /\ k1[1] = k2[1] /\ k1[2] < k2[2]
        /\ history[k1].status \in Terminal
        /\ history[k2].status = ExecutionStatusRunning

\* C9: every stored record with status running has end_time zero; every
\* stored terminal record has a non-zero end_time that is not before its
\* start_time; end_time is assigned once, by the final update: it is zero in
\* the record of every execution that has not reached it.
EndTimeInvariant ==
    /\ \A k \in DOMAIN history :
         /\ history[k].status = ExecutionStatusRunning => history[k].end_time = ZeroTime
         /\ history[k].status \in Terminal =>
               /\ history[k].end_time # ZeroTime
               /\ history[k].end_time >= history[k].start_time
    /\ \A i \in DOMAIN execs :
         /\ execs[i].pc # "done" => execs[i].record.end_time = ZeroTime
         /\ execs[i].pc = "done" =>
               /\ execs[i].record.end_time # ZeroTime
               /\ Stored(i) => StoredRecord(i) = execs[i].record

\* A terminal record whose end_time is later than its start_time is stored
\* beside a running record.
EndTimeInvariantWitness ==
    \E k1, k2 \in DOMAIN history :
        /\ history[k1].status \in Terminal /\ history[k1].end_time > history[k1].start_time
        /\ history[k2].status = ExecutionStatusRunning

\* C10: every execution started on a worker reaches, on every exit path, the
\* final update, which attempts to save one terminal record: an execution
\* that is not finished can always take its next step, a finished one has a
\* record with status success or failed, and what the store holds for it is
\* that record or, when a save failed, the initial one or nothing.
TerminalRecordOnEveryPath ==
    \A i \in DOMAIN execs :
        /\ execs[i].pc # "done" => ENABLED RunJobNext(i)
        /\ execs[i].pc = "done" =>
              /\ execs[i].record.status \in Terminal
              /\ ~ENABLED RunJobNext(i)
              /\ Stored(i) =>
                    \/ StoredRecord(i) = execs[i].record
                    \/ StoredRecord(i).status = ExecutionStatusRunning

\* Executions have finished on each exit path: the executor returned, it
\* failed, it panicked, and the lock was not acquired.
TerminalRecordOnEveryPathWitness ==
    \E i, j \in DOMAIN execs :
        /\ execs[i].pc = "done" /\ execs[j].pc = "done"
        /\ execs[i].record.error = PanicErr
        /\ Stored(i) /\ StoredRecord(i) = execs[i].record
        /\ execs[j].record.error = LockErr

\* C11: a Forbid execution that failed to acquire the job lock never enters
\* an executor and is not sent back to the lock: it goes straight to the final
\* update with no output, holding nothing, and its terminal record has status
\* failed with an error that begins with "skipped execution".
SkippedNeverExecutes ==
    \A i \in DOMAIN execs :
        LostLock(i) =>
            /\ execs[i].pc \in {"finalize", "done"}
            /\ ~execs[i].lock /\ lockHolder[execs[i].job.name] # execs[i].id
            /\ execs[i].record.output = ""
            /\ execs[i].pc = "done" =>
                  /\ execs[i].record.status = ExecutionStatusFailed
                  /\ Head(execs[i].record.error) = "skipped execution"
            /\ (Stored(i) /\ StoredRecord(i).status \in Terminal) =>
                  StoredRecord(i) = execs[i].record

\* An execution found the lock of its job held, finished, and its failed
\* record is in the store while the holder is still in its executor.
SkippedNeverExecutesWitness ==
    \E i, j \in DOMAIN execs :
        /\ execs[i].execErr = LockErr /\ execs[i].pc = "done"
        /\ Stored(i) /\ StoredRecord(i).status = ExecutionStatusFailed
        /\ execs[j].job.name = execs[i].job.name /\ execs[j].pc = "executing"

\* C12: Lock on a name whose lock is held by another session returns
\* ErrLockNotAcquired and no other error, so the execution that leaves the
\* lock gate while the lock is held carries "skipped execution: lock not
\* acquired" (a Lock that could not even open its session set aside).
HeldLockNotAcquired ==
    [][\A i \in DOMAIN execs :
          (/\ execs[i].pc = "gate"
           /\ lockHolder[execs[i].job.name] # NoHolder
           /\ execs'[i].pc # "gate")
          => execs'[i].execErr \in {LockNotAcquiredErr, SessionErr}]_vars

(***************************************************************************)
(* Worker discovery and dispatch.                                          *)
(***************************************************************************)

\* The watch of master m is open and every event delivered to it is handled.
CaughtUp(m) == alive[m] /\ discPc[m] = "watching" /\ watchQ[m] = <<>>

\* C13: every worker whose registration key exists is contained in
\* get_workers() of every running master once that master has handled the
\* events it was sent, whether the worker registered before, during or after
\* the master's initial list and the opening of its watch.
RegisteredWorkersDiscovered ==
    \A m \in Masters : CaughtUp(m) => regKeys \subseteq DOMAIN dWorkers[m]

\* C14: every worker whose lease expired or was revoked is gone from
\* get_workers() of every running master once that master has handled the
\* events it was sent, also when the deletion is committed between the
\* master's initial list and the start of its watch.
DeregisteredWorkersRemoved ==
    \A m \in Masters : CaughtUp(m) => DOMAIN dWorkers[m] \subseteq regKeys

\* C15: a dispatch made while the worker map of the master is empty fails
\* with the no-workers error, sends no RPC and changes neither the client
\* cache nor the wheel, which stays started with its entries: the job is
\* dispatched again by its next tick and by nothing else.
EmptySnapshotDispatchFails ==
    [][\A m \in Masters :
          (alive[m] /\ alive'[m] /\ DOMAIN dWorkers[m] = {}) =>
             /\ \A r \in BagToSet(rpcs') :
                   r.from = m => CopiesIn(r, rpcs') <= CopiesIn(r, rpcs)
             /\ clients'[m] = clients[m]
             /\ lastDispatch'[m] # lastDispatch[m] =>
                   /\ lastDispatch'[m] \in {NoWorkersErr, RpcErr}
                   /\ lastDispatch'[m] = NoWorkersErr =>
                         /\ rpcs' = rpcs
                         /\ entries'[m] = entries[m] /\ jobs'[m] = jobs[m]
                         /\ cronRunning'[m] = cronRunning[m]]_vars

\* A leader whose wheel is started got the no-workers error from a dispatch.
EmptySnapshotDispatchFailsWitness ==
    \E m \in Masters :
        /\ alive[m] /\ cronRunning[m] /\ jobs[m] # {}
        /\ DOMAIN dWorkers[m] = {} /\ lastDispatch[m] = NoWorkersErr
        /\ InFlight(m) = {} /\ clients[m] = {}

(***************************************************************************)
(* Job definitions: the API, the store and the wheel.                      *)
(***************************************************************************)

\* Master m is the leader and its wheel is started.
LeaderFiring(m) ==
    alive[m] /\ pc[m] = "leading" /\ session[m] = "live" /\ cronRunning[m]

\* C16: after a job is saved or deleted through the API of any master
\* replica, the leader's started wheel tracks the store -- every stored job
\* has an entry in its latest stored form, and a job that is not stored has
\* no entry.
LeaderTracksStore ==
    \A m \in Masters :
        LeaderFiring(m) => \A n \in JobNames : entries[m][n] = ListJobs(jobStore)[n]

(***************************************************************************)
(* The schedule engine: AddJob and RemoveJob.                              *)
(***************************************************************************)

\* The last direct call on m's engine was a successful AddJob for name n.
AddedLast(m, n) ==
    /\ engineLog[m][2].op = "AddJob"
    /\ engineLog[m][2].name = n
    /\ ~engineLog[m][2].err

\* C17: after successful AddJob calls for a name, the wheel holds exactly one
\* entry for that name (the mapped one, none unmapped), and that entry - what
\* the next firing dispatches - is the job of the latest AddJob.
OneEntryLatestJob ==
    \A m \in Masters : \A n \in JobNames :
       AddedLast(m, n) =>
          /\ n \in jobs[m]
          /\ entries[m][n] = engineLog[m][2].job
          /\ unmapped[m][n] = <<>>

\* Two successful AddJob calls in a row for j1, with different schedules.
OneEntryLatestJobWitness ==
    \E m \in Masters :
       /\ AddedLast(m, "j1")
       /\ engineLog[m][1].op = "AddJob" /\ engineLog[m][1].name = "j1"
       /\ ~engineLog[m][1].err
       /\ engineLog[m][1].job.cron_expr # engineLog[m][2].job.cron_expr
       /\ entries[m]["j1"].cron_expr = engineLog[m][2].job.cron_expr

\* C18: RemoveJob(name) leaves no entry for name, returns no error, leaves the
\* entries and mappings of every other name as they were, and changes nothing
\* at all when the name is not mapped - as after a previous RemoveJob(name)
\* or when the name was never added.
RemoveJobIdempotent ==
    [][\A m \in Masters : \A n \in JobNames :
          CallRemoveJob(m, n) =>
             /\ entries'[m][n] = NoJob /\ n \notin jobs'[m]
             /\ ~engineLog'[m][2].err
             /\ \A o \in JobNames \ {n} :
                   /\ entries'[m][o] = entries[m][o]
                   /\ (o \in jobs'[m]) = (o \in jobs[m])
             /\ unmapped'[m] = unmapped[m]
             /\ (n \notin jobs[m] \/ (engineLog[m][2].op = "RemoveJob"
                                      /\ engineLog[m][2].name = n))
                   => (entries'[m] = entries[m] /\ jobs'[m] = jobs[m])]_vars

\* RemoveJob was called twice in a row for a name while another name keeps
\* its entry.
RemoveJobIdempotentWitness ==
    \E m \in Masters : \E n \in JobNames :
       /\ engineLog[m][1].op = "RemoveJob" /\ engineLog[m][1].name = n
       /\ engineLog[m][2].op = "RemoveJob" /\ engineLog[m][2].name = n
       /\ entries[m][n] = NoJob
       /\ \E o \in JobNames \ {n} : entries[m][o] # NoJob

(***************************************************************************)
(* The job repository: save, get, delete.                                  *)
(***************************************************************************)

\* Two jobs agree on every field but id, created_at and updated_at.
SameDefinition(a, b) ==
    [a EXCEPT !.id = "", !.created_at = ZeroTime, !.updated_at = ZeroTime]
       = [b EXCEPT !.id = "", !.created_at = ZeroTime, !.updated_at = ZeroTime]

\* C19: right after a successful save, get by name returns the job just saved
\* (all fields equal but the server-assigned id, created_at and updated_at),
\* whatever was saved under the name before; right after a successful delete,
\* and for a name that has no document, get returns ErrJobNotFound.
SaveThenGet ==
    [][/\ \A m \in Masters : \A job \in JobInputs :
            SaveJob(m, job, TRUE) =>
               LET got == GetJob(jobStore', job.name)
               IN /\ got.err = NoErr
                  /\ SameDefinition(got.job, job)
                  /\ got.job.id \in JobIds
                  /\ got.job.updated_at = now
       /\ \A m \in Masters : \A n \in JobNames :
            DeleteJob(m, n, TRUE) => GetJob(jobStore', n) = [job |-> NoJob, err |-> ErrJobNotFound]
       /\ \A n \in JobNames :
            jobStore[n] = NoJob => GetJob(jobStore, n).err = ErrJobNotFound]_vars

\* j1 was saved over its earlier definition, the http job j2 was saved (its
\* method defaulted), and both can be read back.
SaveThenGetWitness ==
    /\ GetJob(jobStore, "j1").err = NoErr
    /\ GetJob(jobStore, "j1").job.cron_expr = "*/2 * * * * *"
    /\ GetJob(jobStore, "j2").err = NoErr
    /\ GetJob(jobStore, "j2").job.id = "u2"
    /\ GetJob(jobStore, "j2").job.executor.method = "GET"

(***************************************************************************)
(* The HTTP executor: retries.                                             *)
(***************************************************************************)

\* The executor of execution i has returned.
Returned(i) == execs[i].pc \in {"unlock", "finalize", "done"}

\* A result the retry policy is meant to retry: a 5xx response or a timeout.
Retriable(res) ==
    \/ res.kind = "response" /\ res.status >= 500
    \/ res.kind = "failure" /\ res.cause = "timeout"

Succeeded(res) == res.kind = "response" /\ res.status < 400

\* C20: an http execution with max_retries = n > 0 makes at most n + 1
\* requests, every request but the last was answered by a 5xx response or a
\* timeout, none but the last succeeded, and when the last one succeeded the
\* executor returned no error; with no policy or max_retries = 0 it makes
\* exactly one request.
RetryOnlyRetriable ==
    \A i \in DOMAIN execs :
       (Returned(i) /\ execs[i].job.executor_type = ExecutorTypeHTTP) =>
          LET e == execs[i]
              a == e.attempts
          IN /\ Len(a) >= 1 /\ Len(a) <= MaxAttempts(e.job)
             /\ \A k \in 1..(Len(a) - 1) : Retriable(a[k]) /\ ~Succeeded(a[k])
             /\ Succeeded(a[Len(a)]) => e.execErr = NoErr
             /\ (e.job.retry_policy = NoRetryPolicy \/ e.job.retry_policy.max_retries = 0)
                   => Len(a) = 1

\* A result that must not be retried: a 4xx response, or a request failure
\* that is not a timeout.
NonRetriable(res) ==
    \/ res.kind = "response" /\ res.status >= 400 /\ res.status <= 499
    \/ res.kind = "failure" /\ res.cause # "timeout"

\* err ends with the error chain inner: it is inner, or wraps it.
Wraps(err, inner) ==
    /\ Len(err) >= Len(inner)
    /\ SubSeq(err, Len(err) - Len(inner) + 1, Len(err)) = inner

\* C21: a request of an http execution that was answered by a 4xx response or
\* failed without timing out is the last request of the execution, whatever
\* max_retries is; the executor returns that error, and the terminal record
\* of the execution is failed.
NonRetriableStops ==
    \A i \in DOMAIN execs :
       (Returned(i) /\ execs[i].job.executor_type = ExecutorTypeHTTP) =>
          LET e == execs[i]
              a == e.attempts
          IN \A k \in 1..Len(a) :
                NonRetriable(a[k]) =>
                   /\ k = Len(a)
                   /\ e.execErr # NoErr
                   /\ Wraps(e.execErr, DoExecute(e.job, a[k]).err)
                   /\ e.pc = "done" => e.record.status = ExecutionStatusFailed

\* The positions of the requests of execution i that received a response.
Responses(a) == {k \in 1..Len(a) : a[k].kind = "response"}

\* The last of a non-empty set of positions.
Last(ks) == CHOOSE k \in ks : \A o \in ks : o <= k

\* C22: when the http executor has returned and at least one request received
\* a response, the output it returned - the output of the record - is the body
\* of the last response, on success, on a non-retriable error and on retry
\* exhaustion, with or without a retry policy.
OutputIsLastBody ==
    \A i \in DOMAIN execs :
       (/\ Returned(i) /\ execs[i].job.executor_type = ExecutorTypeHTTP
        /\ Responses(execs[i].attempts) # {}) =>
          execs[i].record.output = execs[i].attempts[Last(Responses(execs[i].attempts))].body

(***************************************************************************)
(* Executions: the counter, the order of the writes, panics.               *)
(***************************************************************************)

\* Execution i runs its deferred updates in this step.
Finalizes(i) ==
    /\ i \in DOMAIN execs /\ execs[i].pc = "finalize"
    /\ execs'[i].pc = "done"

\* C23: the step in which an execution ends increments job_executions_total
\* once, under the job's name and the status of the execution's terminal
\* record, and leaves every other counter alone - after a normal return, a
\* skip and a panic alike; no other step changes a counter.
CountedOnceAsRecorded ==
    [][/\ \A i \in DOMAIN execs :
            Finalizes(i) =>
               \A k \in DOMAIN jobExecTotal :
                  jobExecTotal'[k] =
                     jobExecTotal[k]
                        + (IF k = <<execs[i].job.name, execs'[i].record.status>>
                           THEN 1 ELSE 0)
       /\ (\A i \in DOMAIN execs : ~Finalizes(i)) => jobExecTotal' = jobExecTotal]_vars

\* The executor of execution i was invoked and has returned or panicked.
Ran(i) ==
    /\ execs[i].pc \in {"unlock", "finalize", "done"}
    /\ ~LostLock(i)
    /\ execs[i].execErr # NoExecutorErr

\* C24: an execution that has not made its first save has no record in the
\* store; from the lock gate to the end of the executor its record was
\* created and its save attempted, and what the store holds for it is the
\* running record; a terminal record is in the store only once the execution
\* has run its final update, after the executor returned; and the terminal
\* status of an execution whose executor ran is success exactly when the
\* executor returned without error and did not panic.
RecordWritesOrdered ==
    \A i \in DOMAIN execs :
        LET e == execs[i]
        IN /\ e.pc = "start" => ~Stored(i)
           /\ e.pc \in {"gate", "executing", "unlock", "finalize"} =>
                 /\ e.record.start_time # ZeroTime
                 /\ e.record.status = ExecutionStatusRunning
                 /\ Stored(i) => StoredRecord(i).status = ExecutionStatusRunning
           /\ (Stored(i) /\ StoredRecord(i).status \in Terminal) => e.pc = "done"
           /\ (e.pc = "done" /\ Ran(i)) =>
                 e.record.status =
                    IF e.execErr = NoErr /\ e.record.error # PanicErr
                    THEN ExecutionStatusSuccess ELSE ExecutionStatusFailed

\* One execution is inside its executor with its running record stored, and
\* another has stored success after its executor returned.
RecordWritesOrderedWitness ==
    \E i, j \in DOMAIN execs :
        /\ execs[i].pc = "executing" /\ Stored(i)
        /\ StoredRecord(i).status = ExecutionStatusRunning
        /\ execs[j].pc = "done" /\ Ran(j) /\ Stored(j)
        /\ StoredRecord(j).status = ExecutionStatusSuccess
        /\ StoredRecord(j).output = "out"

\* C25: when an execution whose executor panicked runs its deferred updates,
\* its terminal record is persisted with status failed and an error that
\* begins with "panic: ", the lock of its job is not held by it any more, and
\* its worker process is still running and accepts ExecuteTask calls.
PanicCaught ==
    [][\A i \in DOMAIN execs :
          (Finalizes(i) /\ execs[i].panicking) =>
             LET rec == execs'[i].record
             IN /\ rec.status = ExecutionStatusFailed
                /\ rec.error[1] = "panic: "
                /\ HistoryKey(rec) \in DOMAIN history'
                /\ history'[HistoryKey(rec)] = rec
                /\ ~execs'[i].lock
                /\ lockHolder'[execs[i].job.name] # execs[i].id
                /\ wAlive'[execs[i].worker]]_vars

\* The executor of an execution that held the lock of j1 panicked; a later
\* execution of j1 on the same worker acquired the lock and ended in success.
PanicCaughtWitness ==
    \E i, j \in DOMAIN execs :
        /\ i < j /\ execs[i].worker = execs[j].worker
        /\ execs[i].job.name = "j1" /\ execs[j].job.name = "j1"
        /\ execs[i].pc = "done" /\ execs[i].record.error = PanicErr
        /\ Stored(i) /\ StoredRecord(i).status = ExecutionStatusFailed
        /\ execs[j].pc = "done" /\ Stored(j)
        /\ StoredRecord(j).status = ExecutionStatusSuccess
        /\ StoredRecord(j).start_time >= StoredRecord(i).end_time

(***************************************************************************)
(* The job lock over one execution.                                        *)
(***************************************************************************)

\* Execution i has left the lock gate with the lock and has not yet run its
\* deferred unlock.
InsideLock(i) ==
    /\ execs[i].job.concurrency_policy = ConcurrencyPolicyForbid
    /\ execs[i].pc \in {"executing", "unlock"}

\* C27: a Forbid execution holds the lock of its job from the gate until its
\* deferred unlock, whatever the executor does and however many requests it
\* makes; every way out of the executor passes through the unlock; the unlock
\* removes the key when mutex.Unlock or the closing of the session succeeds,
\* and when both fail the key is left to a lease nobody refreshes and that
\* may run out, so the lock never stays with an execution that has ended.
LockHeldThenReleased ==
    [][\A i \in DOMAIN execs :
          LET e == execs[i]
              n == e.job.name
          IN /\ InsideLock(i) => e.lock /\ lockHolder[n] = e.id
             /\ (InsideLock(i) /\ e.pc = "executing" /\ execs'[i] # e)
                   => execs'[i].pc = "unlock" /\ lockHolder'[n] = e.id
             /\ (e.pc = "unlock" /\ execs'[i] # e)
                   => /\ ~execs'[i].lock
                      /\ (Unlock(i, TRUE, TRUE) \/ Unlock(i, TRUE, FALSE) \/ Unlock(i, FALSE, TRUE))
                            => lockHolder'[n] = NoHolder
             /\ (e.pc \in {"finalize", "done"} /\ lockHolder[n] = e.id)
                   => ENABLED LockLeaseExpire(n)]_vars

\* Two executions of the Forbid job j2 with a retry policy: the first ended
\* on an executor error and its unlock removed the key; the second acquired
\* the lock, made two requests under it, and both mutex.Unlock and the
\* closing of its session failed, so the key waits for its lease to run out.
LockHeldThenReleasedWitness ==
    \E i, j \in DOMAIN execs :
        /\ i < j /\ execs[i].job.name = "j2" /\ execs[j].job.name = "j2"
        /\ execs[i].pc = "done" /\ execs[i].record.status = ExecutionStatusFailed
        /\ Len(execs[i].attempts) > 0
        /\ Len(execs[j].attempts) = 2
        /\ execs[j].pc = "finalize" /\ ~execs[j].lock
        /\ lockHolder["j2"] = execs[j].id
        /\ ENABLED LockLeaseExpire("j2")

\* C26: the step of the first save - whether or not the store took the
\* record - leaves the execution on its way to the lock gate or the executor
\* with no error; and the step of the final save - whether or not the store
\* took the record - ends the execution with the status that follows from
\* the executor alone: failed after an error or a panic, success otherwise.
PersistenceNeverAborts ==
    [][\A i \in DOMAIN execs :
          LET e == execs[i]
          IN /\ (e.pc = "start" /\ execs'[i] # e)
                   => /\ execs'[i].pc =
                            IF e.job.concurrency_policy = ConcurrencyPolicyForbid
                            THEN "gate" ELSE "executing"
                      /\ execs'[i].execErr = NoErr
             /\ Finalizes(i)
                   => execs'[i].record.status =
                         IF e.panicking \/ e.execErr # NoErr
                         THEN ExecutionStatusFailed ELSE ExecutionStatusSuccess]_vars

\* An execution of the Forbid job j1 none of whose saves reached the store:
\* it passed the lock gate, its executor returned an output, and it ended
\* with status success.
PersistenceNeverAbortsWitness ==
    \E i \in DOMAIN execs :
        /\ execs[i].job.name = "j1" /\ execs[i].pc = "done"
        /\ ~Stored(i)
        /\ Ran(i) /\ execs[i].record.output = "out"
        /\ execs[i].record.status = ExecutionStatusSuccess

(***************************************************************************)
(* Discovery after the end of a watch.                                     *)
(***************************************************************************)

\* Master m can take a step of worker discovery: a list, the opening of a
\* watch, or the handling of an event.
CanSynchronize(m) ==
    ENABLED (LoadInitialWorkers(m, TRUE) \/ OpenWatch(m) \/ HandleEvent(m))

\* The loop of WatchWorkers over the watch channel of master m has ended.
WatchEnded(m) == discPc[m] = "exited"

\* C28: a running master whose root context is live and whose watch on the
\* worker prefix has ended lists the workers again and opens a new watch: it
\* is never left with an ended watch and no step of discovery to take.
WatchRestarts ==
    \A m \in Masters :
        (alive[m] /\ ~cancelled[m] /\ WatchEnded(m)) => CanSynchronize(m)

(***************************************************************************)
(* The supervisor loop after leadership loss and after cancellation.       *)
(***************************************************************************)

StoreWriteBeforeEngine ==
    [][\A m \in Masters, n \in JobNames :
          /\ (entries[m][n] # NoJob /\ entries'[m][n] = NoJob) => jobStore'[n] = NoJob
          /\ (entries'[m][n] # NoJob /\ entries'[m][n] # entries[m][n])
                => jobStore'[n] = Marshal(entries'[m][n])]_vars

(***************************************************************************)
(* The engine: replacement of an entry, interleaved calls.                 *)
(***************************************************************************)

\* The step is an AddJob call on the engine of master m for name n that
\* returned an error.
AddJobFailed(m, n) ==
    /\ engineLog'[m] # engineLog[m]
    /\ engineLog'[m][2].op = "AddJob"
    /\ engineLog'[m][2].name = n
    /\ engineLog'[m][2].err

\* C31: an AddJob call never leaves a name that had an entry without one:
\* when it returns an error the entry installed before is still installed,
\* and every name of the table refers to an entry of the wheel.
ReplaceIsAtomic ==
    [][\A m \in Masters, n \in JobNames :
          /\ (AddJobFailed(m, n) /\ entries[m][n] # NoJob) => entries'[m][n] = entries[m][n]
          /\ (entries[m][n] # NoJob /\ engineLog'[m][2].op = "AddJob"
                /\ engineLog'[m] # engineLog[m] /\ engineLog'[m][2].name = n)
                => entries'[m][n] # NoJob
          /\ n \in jobs'[m] => entries'[m][n] # NoJob]_vars

\* C32: once the AddJob and RemoveJob calls on an engine have all returned,
\* its wheel holds no entry that no name maps to, and every name of the table
\* refers to an entry of the wheel.
NoOrphanEntry ==
    \A m \in Masters :
        (alive[m] /\ pending[m] = <<>>) =>
            \A n \in JobNames :
                /\ unmapped[m][n] = <<>>
                /\ n \in jobs[m] => entries[m][n] # NoJob

(***************************************************************************)
(* Dispatch: one call, one RPC.                                            *)
(***************************************************************************)

\* The ExecuteTask calls of master m that are in flight, counted.
Sent(m, bag) ==
    BagCardinality([r \in {q \in BagToSet(bag) : q.from = m} |-> CopiesIn(r, bag)])

\* C33: a step in which master m sends, sends exactly one ExecuteTask call,
\* to an address of the worker snapshot of that moment, through a client that
\* is cached; a step in which a call of m fails returns the error to the
\* caller, sends nothing again and leaves the client cache as it was.
OneRpcPerDispatch ==
    [][\A m \in Masters :
          /\ (alive[m] /\ Sent(m, rpcs') > Sent(m, rpcs))
                => /\ Sent(m, rpcs') = Sent(m, rpcs) + 1
                   /\ \E r \in BagToSet(rpcs') :
                         /\ rpcs' = rpcs (+) SetToBag({r})
                         /\ r.from = m /\ r.to \in GetWorkers(m)
                         /\ r.to \in clients'[m]
                   /\ lastDispatch'[m] = NoErr
          /\ (alive[m] /\ Sent(m, rpcs') < Sent(m, rpcs))
                => /\ Sent(m, rpcs') = Sent(m, rpcs) - 1
                   /\ lastDispatch'[m] = RpcErr
                   /\ clients'[m] = clients[m]]_vars

\* A dispatch of master m has failed at the RPC: the error is what the call
\* returned, nothing of m is in flight, and the client is still cached.
OneRpcPerDispatchWitness ==
    \E m \in Masters :
        /\ alive[m] /\ lastDispatch[m] = RpcErr
        /\ InFlight(m) = {}
        /\ GetWorkers(m) # {} /\ clients[m] = GetWorkers(m)

(***************************************************************************)
(* The reply of ExecuteTask.                                               *)
(***************************************************************************)

\* A TaskRequest that cannot be turned into a job: its executor type is
\* neither http nor shell, the executor message of its type is missing, or
\* its retry policy has a backoff that is not a duration.
Malformed(req) ==
    \/ req.executor_type \notin {ExecutorTypeHTTP, ExecutorTypeShell}
    \/ req.executor_type = ExecutorTypeHTTP /\ req.http_executor = NoMsg
    \/ req.executor_type = ExecutorTypeShell /\ req.shell_executor = NoMsg
    \/ req.retry_policy # NoMsg /\ ~ParsesAsDuration(req.retry_policy.backoff)

\* C34: an ExecuteTask call is answered with exactly one of execution_id and
\* error_message and saves no record itself; a malformed request is answered
\* with error_message and starts nothing; any other request is answered with
\* an id no execution has yet and starts exactly one execution, under that
\* id, at the beginning of runJob.
ExactlyOneReply ==
    [][\A req \in AcceptRequests :
          ExecuteTask("w1", [from |-> "m1", to |-> GrpcListenAddr, req |-> req]) =>
             /\ (lastReply'.execution_id = <<>>) # (lastReply'.error_message = <<>>)
             /\ history' = history
             /\ IF Malformed(req)
                THEN lastReply'.error_message # <<>> /\ execs' = execs
                ELSE /\ lastReply'.execution_id # <<>>
                     /\ Len(execs') = Len(execs) + 1
                     /\ SubSeq(execs', 1, Len(execs)) = execs
                     /\ lastReply'.execution_id = <<execs'[Len(execs')].id>>
                     /\ \A i \in DOMAIN execs : execs[i].id # execs'[Len(execs')].id
                     /\ execs'[Len(execs')].pc = "start"]_vars

\* One request has been accepted and its execution has run to its end; the
\* last request was answered with an error message and started nothing.
ExactlyOneReplyWitness ==
    /\ Len(execs) = 1 /\ execs[1].pc = "done"
    /\ lastReply.error_message = InvalidTaskErr /\ lastReply.execution_id = <<>>
    /\ DOMAIN history = {HistoryKey(execs[1].record)}

(***************************************************************************)
(* Dispatch does not wait for the executor.                                *)
(***************************************************************************)

\* C35: the step in which a worker answers an ExecuteTask call ends the call
\* of the master while the execution it started has not taken a step; and
\* whatever the executions on the workers are doing, a worker that is up can
\* answer every call in flight and a started wheel can fire every entry.
ReplyBeforeExecutor ==
    [][/\ \A w \in Workers : \A r \in BagToSet(rpcs) :
             (ExecuteTask(w, r) /\ Len(execs') > Len(execs))
                => /\ execs'[Len(execs')].pc = "start"
                   /\ Sent(r.from, rpcs') = Sent(r.from, rpcs) - 1
                   /\ lastReply'.execution_id = <<execs'[Len(execs')].id>>
       /\ \A w \in Workers : \A r \in BagToSet(rpcs) :
             wAlive[w] => ENABLED ExecuteTask(w, r)
       /\ \A m \in Masters, n \in JobNames :
             (alive[m] /\ cronRunning[m] /\ entries[m][n] # NoJob) => ENABLED Fire(m, n)]_vars

\* The executor of the first execution of j2 has not returned; a later
\* firing of j2 was dispatched, answered, run and recorded as a success, and
\* no call of the master is waiting.
ReplyBeforeExecutorWitness ==
    /\ Len(execs) = 2
    /\ execs[1].job.name = "j2" /\ execs[1].pc = "executing"
    /\ execs[2].job.name = "j2" /\ execs[2].pc = "done"
    /\ execs[1].worker = execs[2].worker
    /\ Stored(2) /\ StoredRecord(2).status = ExecutionStatusSuccess
    /\ InFlight("m1") = {} /\ lastDispatch["m1"] = NoErr

\* ---------------------------------------------------------------------------
\* The end of a worker process.

\* The worker process ends. On a signal main returns after GracefulStop, which
\* waits for the ExecuteTask calls being answered and not for the runJob
\* goroutines they spawned, and the deferred Deregister revokes the
\* registration lease; on a crash the process just stops. Either way every
\* runJob goroutine of the process stops where it is.
WorkerExit(w, graceful) ==
    /\ wAlive[w]
    /\ wAlive' = [wAlive EXCEPT ![w] = FALSE]
    /\ IF graceful /\ w \in regKeys
          THEN /\ regKeys' = regKeys \ {w}
               /\ deregistered' = deregistered \cup {w}
               /\ Deliver([type |-> "delete", key |-> w])
          ELSE UNCHANGED <<regKeys, deregistered, watchQ>>
    /\ UNCHANGED <<jobStore, leaderKeys, pred, history, lockHolder, session,
                   alive, cancelled, pc, isLeader, cronRunning, entries, jobs, unmapped, engineLog, discPc,
                   dWorkers, clients, lastDispatch, rpcs, execs, now, jobExecTotal, pending, lastReply>>

\* One worker that accepts tasks and runs them, the store answering every
\* call, until its process ends.
ExitNext ==
    \/ \E r \in Requests : Len(execs) < MaxExecs /\ ExecuteTask("w1", r)
    \/ \E i \in 1..MaxExecs :
          \/ SaveInitial(i, TRUE)
          \/ Gate(i, TRUE, TRUE)
          \/ \E outcome \in ExecOutcomes : ExecEnd(i, outcome)
          \/ Unlock(i, TRUE, TRUE)
          \/ Finalize(i, TRUE)
    \/ \E graceful \in BOOLEAN : WorkerExit("w1", graceful)

SpecExit == Init /\ [][ExitNext]_vars

\* C36: no execution record stays in status running forever, also when its
\* worker is shut down or crashes during the execution: whenever the store
\* holds a record in status running, a step of the runJob that wrote it can
\* still be taken.
RunningRecordHasFinalizer ==
    \A i \in DOMAIN execs :
        (Stored(i) /\ StoredRecord(i).status = ExecutionStatusRunning)
            => ENABLED RunJobNext(i)

\* C37: a leader whose root context is cancelled relinquishes the leader key
\* before it exits: once the supervisor loop of a cancelled master has
\* returned, the election key of that master is gone from the store, so no
\* other candidate has to wait for its lease.
KeyRelinquishedOnExit ==
    \A m \in Masters :
        (alive[m] /\ cancelled[m] /\ pc[m] = "done")
            => /\ m \notin leaderKeys
               /\ \A o \in Masters : m \notin pred[o]

\* C38: a firing dispatches under a context derived from the engine's root
\* context, so stopping the engine or losing leadership cancels the calls of
\* that master still in flight: whenever a running master whose engine was
\* stopped on cancellation, or which has lost its leadership, has a call in
\* flight, that call can be cancelled.
EngineStopped(m) == cancelled[m] /\ ~cronRunning[m]
LostLeadership(m) == session[m] = "dead" /\ pc[m] = "loop"
CancelReachesDispatch ==
    \A m \in Masters : \A r \in InFlight(m) :
        (alive[m] /\ (EngineStopped(m) \/ LostLeadership(m)))
            => ENABLED RpcCancelled(r)

\* ---------------------------------------------------------------------------
\* Executions of jobs that do not forbid concurrency.

\* The TaskRequests of the saved jobs - j1 forbids concurrency, j2 allows it -
\* and the request of j2 with the concurrency policy left empty.
PolicyRequests ==
    LET http == DomainToProto(SavedJob("j2"))
    IN {DomainToProto(SavedJob("j1")), http, [http EXCEPT !.concurrency_policy = ""]}

\* One worker under any interleaving of these requests, with the store, the
\* lock and the executor free to fail.
PolicyNext ==
    \/ \E req \in PolicyRequests :
          /\ Len(execs) < MaxExecs
          /\ ExecuteTask("w1", [from |-> "m1", to |-> GrpcListenAddr, req |-> req])
    \/ \E i \in 1..MaxExecs : RunJobNext(i)

SpecPolicy == Init /\ [][PolicyNext]_vars

\* Execution i belongs to a job whose policy is Allow or is not set.
Unrestricted(e) == e.job.concurrency_policy \in {ConcurrencyPolicyAllow, ""}

\* C39: an execution of a job with concurrency Allow, or with no policy set,
\* never attempts or holds the job mutex and is never skipped; overlapping
\* executions of the job each have their own id and their own record key; and
\* no step of such an execution changes the lock state of any job.
AllowBypassesMutex ==
    [][/\ \A i \in DOMAIN execs' :
             Unrestricted(execs'[i])
                => /\ execs'[i].pc # "gate"
                   /\ ~execs'[i].lock
                   /\ execs'[i].execErr \notin {LockErr, SessionErr, LockNotAcquiredErr}
                   /\ \A n \in JobNames : lockHolder'[n] # execs'[i].id
                   /\ (i \notin DOMAIN execs \/ execs'[i] # execs[i]) => lockHolder' = lockHolder
       /\ \A i, j \in DOMAIN execs' :
             i # j => /\ execs'[i].id # execs'[j].id
                      /\ HistoryKey(InitialRecord(execs'[i].id, execs'[i].job, execs'[i].worker, now))
                            # HistoryKey(InitialRecord(execs'[j].id, execs'[j].job, execs'[j].worker, now))]_vars

\* Two executions of j2, one under Allow and one without policy, are inside
\* the executor on the same worker at once, each with its own stored record,
\* and no lock is held.
AllowBypassesMutexWitness ==
    /\ Len(execs) = 2
    /\ execs[1].job.name = "j2" /\ execs[1].job.concurrency_policy = ""
    /\ execs[2].job.name = "j2" /\ execs[2].job.concurrency_policy = ConcurrencyPolicyAllow
    /\ execs[1].worker = execs[2].worker
    /\ execs[1].pc = "executing" /\ execs[2].pc = "executing"
    /\ Stored(1) /\ Stored(2)
    /\ HistoryKey(execs[1].record) # HistoryKey(execs[2].record)
    /\ StoredRecord(1).status = ExecutionStatusRunning
    /\ StoredRecord(2).status = ExecutionStatusRunning
    /\ \A n \in JobNames : lockHolder[n] = NoHolder

\* C40: when a master wins a campaign, its engine holds entries for exactly
\* the jobs in the store: after the job load that follows the win has started
\* the wheel, every stored job has its entry in its stored form, and the wheel
\* has no entry - mapped or not - for anything else, whatever earlier API
\* calls on this or another replica left behind.
WheelMatchesStoreOnWin ==
    [][\A m \in Masters :
          (RunSchedular(m) /\ cronRunning'[m])
             => \A n \in JobNames :
                   /\ entries'[m][n] = ListJobs(jobStore')[n]
                   /\ unmapped'[m][n] = <<>>]_vars

====
